---- MODULE Spec2Model ----
(***************************************************************************)
(* Room synchronization engine of staySync: the socket-facing music        *)
(* control handlers (backend/socket/socketHandlers.js), the Room model     *)
(* (models/Room.js) and the REST membership routes (backend/routes         *)
(* rooms router).                                                          *)
(*                                                                         *)
(* Every handler is an async function.  It is modelled as a task that      *)
(* advances one step per awaited store operation: the step applies the     *)
(* operation to the store and runs the synchronous code that follows it    *)
(* up to the next await (the read of a Song document is taken together     *)
(* with the read of the Room that precedes it).  Steps of different tasks  *)
(* interleave freely.                                                      *)
(* Room.findById returns a private in-memory copy of the document,         *)
(* room.save() writes that copy back in full without any version check,    *)
(* and Room.findByIdAndUpdate sets only the fields it names.  populate()   *)
(* and toString() are transparent: ids compare by identity.                *)
(***************************************************************************)
EXTENDS Integers, Sequences, FiniteSets, TLC

VARIABLES
    rooms,              \* Room collection: room id -> document
    songs,              \* Song collection: song id -> play counter
    messages,           \* Message collection: system chat entries, in save order
    activeConnections,  \* socketHandlers.js: userId -> connection entry
    socketRooms,        \* socket.io rooms each user's socket has joined
    sockets,            \* users whose socket is connected
    tasks,              \* handlers in flight, one slot each
    emitted,            \* every event sent to clients, in emission order
    arrivals,           \* control events in the order they arrived
    applied,            \* ids of control events, in the order their update was applied
    live,               \* identities whose join completed and has not been followed by a completed leave
    now,                \* the wall clock read by new Date()
    budget              \* how many more requests and events the clients will send

vars == <<rooms, songs, messages, activeConnections, socketRooms, sockets, tasks,
          emitted, arrivals, applied, live, now, budget>>

----------------------------------------------------------------------------
(* Bounds and input domains *)

MaxTasks == 2       \* handlers in flight at a time
MaxEvents == 1      \* control events sent, SpecControl
MaxOverlap == 2     \* control events sent, SpecOverlap
MaxOps == 2         \* requests to the rooms router, SpecMembers

RoomIds == {"r1"}
Users == {"h", "m", "u"}
Songs == {"s1", "s2"}
SongIds == {"s1", "sx"}            \* the song ids clients send; "sx" has no Song document
Null == "null"
NoDate == 0
PlayTimes == {0}
PauseTimes == {5}
SeekTimes == {3}
Volumes == {-1, 0, 100, 101}
Actions == {"play", "pause", "seek", "next", "volume"}

----------------------------------------------------------------------------
(* Sequence helpers *)

Range(s) == {s[i] : i \in DOMAIN s}

RECURSIVE InsertByOrder(_, _)
InsertByOrder(s, x) ==
    IF s = <<>> THEN <<x>>
    ELSE IF x.order < Head(s).order THEN <<x>> \o s
    ELSE <<Head(s)>> \o InsertByOrder(Tail(s), x)

\* queue.sort((a, b) => a.order - b.order): stable, ascending
RECURSIVE SortByOrder(_)
SortByOrder(s) ==
    IF s = <<>> THEN <<>>
    ELSE InsertByOrder(SortByOrder(SubSeq(s, 1, Len(s) - 1)), s[Len(s)])

\* the insertion of a sort that puts the latest joinedAt first
RECURSIVE InsertByJoinedAt_latestFirst(_, _)
InsertByJoinedAt_latestFirst(s, x) ==
    IF s = <<>> THEN <<x>>
    ELSE IF x.joinedAt > Head(s).joinedAt THEN <<x>> \o s
    ELSE <<Head(s)>> \o InsertByJoinedAt_latestFirst(Tail(s), x)

RECURSIVE InsertByJoinedAt(_, _)
InsertByJoinedAt(s, x) ==
    IF s = <<>> THEN <<x>>
    ELSE IF x.joinedAt < Head(s).joinedAt THEN <<x>> \o s
    ELSE <<Head(s)>> \o InsertByJoinedAt(Tail(s), x)

\* members.sort((a, b) => a.joinedAt - b.joinedAt): stable, ascending
RECURSIVE SortByJoinedAt(_)
SortByJoinedAt(s) ==
    IF s = <<>> THEN <<>>
    ELSE InsertByJoinedAt(SortByJoinedAt(SubSeq(s, 1, Len(s) - 1)), s[Len(s)])

----------------------------------------------------------------------------
(* models/Room.js: the Room document and its methods *)

\* currentTrack as the schema defaults create it
NullTrack ==
    [songId |-> Null, startedAt |-> NoDate, currentTime |-> 0,
     isPlaying |-> FALSE, playedBy |-> Null]

\* settings a new room gets: the defaults of POST /api/rooms merged with the request's settings
DefaultSettings(skip, shuffle) ==
    [allowMembersToAddSongs |-> TRUE, allowMembersToSkip |-> skip,
     shuffleMode |-> shuffle, volume |-> 80]

\* no document with this id (Room.findById gives null)
NoRoom ==
    [exists |-> FALSE, isActive |-> FALSE, hostId |-> Null, isPrivate |-> FALSE,
     passcode |-> Null, maxMembers |-> 0, members |-> <<>>, queue |-> <<>>,
     currentTrack |-> NullTrack, settings |-> DefaultSettings(FALSE, FALSE)]

\* members.find(member => member.userId.toString() === userId.toString()): index, 0 if none
RECURSIVE FindMemberFrom(_, _, _)
FindMemberFrom(members, userId, i) ==
    IF i > Len(members) THEN 0
    ELSE IF members[i].userId = userId THEN i
    ELSE FindMemberFrom(members, userId, i + 1)

\* a lookup that takes the first entry for whoever asks
FindMember_firstEntry(room, userId) == IF Len(room.members) > 0 THEN 1 ELSE 0

FindMember(room, userId) == FindMemberFrom(room.members, userId, 1)

\* a membership test every identity passes
IsMember_anyone(room, userId) == TRUE

IsMember(room, userId) == FindMember(room, userId) # 0

MemberIds(room) == {room.members[i].userId : i \in DOMAIN room.members}

\* roomSchema.methods.addMember
addMember(room, userId, role, date) ==
    LET i == FindMember(room, userId) IN
    IF i # 0
    THEN [room EXCEPT !.members[i].isOnline = TRUE, !.members[i].joinedAt = date]
    ELSE [room EXCEPT !.members = Append(@,
            [userId |-> userId, role |-> role, joinedAt |-> date, isOnline |-> TRUE])]

\* roomSchema.methods.removeMember
removeMember(room, userId) ==
    [room EXCEPT !.members = SelectSeq(@, LAMBDA mem : mem.userId # userId)]

\* updateMemberStatus written like the existing-member branch of addMember
updateMemberStatus_resetsJoinedAt(room, userId, isOnline) ==
    LET i == FindMember(room, userId) IN
    IF i # 0
    THEN [room EXCEPT !.members[i].isOnline = isOnline, !.members[i].joinedAt = now]
    ELSE room

\* updateMemberStatus taking the entry of a member who goes offline out of the list
updateMemberStatus_dropsOffline(room, userId, isOnline) ==
    LET i == FindMember(room, userId) IN
    IF i = 0 THEN room
    ELSE IF isOnline THEN [room EXCEPT !.members[i].isOnline = TRUE]
    ELSE removeMember(room, userId)

\* roomSchema.methods.updateMemberStatus
updateMemberStatus(room, userId, isOnline) ==
    LET i == FindMember(room, userId) IN
    IF i # 0 THEN [room EXCEPT !.members[i].isOnline = isOnline] ELSE room

QueueIds(queue) == {queue[i].songId : i \in DOMAIN queue}

\* queue.find(q => q.songId.toString() === songId.toString()): index, 0 if none
RECURSIVE FindQueueItemFrom(_, _, _)
FindQueueItemFrom(queue, songId, i) ==
    IF i > Len(queue) THEN 0
    ELSE IF queue[i].songId = songId THEN i
    ELSE FindQueueItemFrom(queue, songId, i + 1)

FindQueueItem(queue, songId) == FindQueueItemFrom(queue, songId, 1)

\* Math.max(...queue.map(item => item.order))
RECURSIVE MaxOrder(_)
MaxOrder(queue) ==
    IF Len(queue) = 1 THEN queue[1].order
    ELSE LET rest == MaxOrder(Tail(queue)) IN
         IF queue[1].order > rest THEN queue[1].order ELSE rest

\* addToQueue numbering the new item by the length of the queue
addToQueue_byLength(room, songId, addedBy) ==
    [room EXCEPT !.queue = Append(@,
        [songId |-> songId, addedBy |-> addedBy, order |-> Len(room.queue) + 1])]

\* roomSchema.methods.addToQueue
addToQueue(room, songId, addedBy) ==
    LET nextOrder == IF Len(room.queue) > 0 THEN MaxOrder(room.queue) + 1 ELSE 1 IN
    [room EXCEPT !.queue = Append(@,
        [songId |-> songId, addedBy |-> addedBy, order |-> nextOrder])]

\* removeFromQueue with the filtered array not assigned back
removeFromQueue_notAssigned(room, songId) == room

\* roomSchema.methods.removeFromQueue
removeFromQueue(room, songId) ==
    [room EXCEPT !.queue = SelectSeq(@, LAMBDA item : item.songId # songId)]

\* newOrder.forEach((item, index) => { queueItem.order = index + 1 })
RECURSIVE ReorderFrom(_, _, _)
ReorderFrom(queue, newOrder, index) ==
    IF index > Len(newOrder) THEN queue
    ELSE LET i == FindQueueItem(queue, newOrder[index]) IN
         ReorderFrom(IF i # 0 THEN [queue EXCEPT ![i].order = index] ELSE queue,
                     newOrder, index + 1)

\* roomSchema.methods.reorderQueue
reorderQueue(room, newOrder) ==
    [room EXCEPT !.queue = SortByOrder(ReorderFrom(@, newOrder, 1))]

\* getNextSong sorting by descending order
SortedQueue_descending(room) ==
    [room EXCEPT !.queue =
        [i \in 1..Len(@) |-> SortByOrder(@)[Len(@) + 1 - i]]]

\* roomSchema.methods.getNextSong without shuffle: sorts the queue in place, first item
SortedQueue(room) == [room EXCEPT !.queue = SortByOrder(@)]

\* roomSchema.methods.getNextSong with shuffleMode: any index Math.random can give
ShuffleChoices(room) == DOMAIN room.queue

----------------------------------------------------------------------------
(* backend/socket/socketHandlers.js: handleMusicControl *)

Idle == [pc |-> "idle"]

IsIdle(t) == tasks[t].pc = "idle"

\* a new handler takes the lowest free slot
FreeSlot(t) == IsIdle(t) /\ \A s \in 1..(t - 1) : ~IsIdle(s)

\* socket.emit('error', { message })
ErrorEvent(id, user, message) ==
    [ev |-> "error", id |-> id, from |-> user, to |-> {user},
     data |-> [message |-> message]]

\* the socket.io room with the sender's own socket left in
Others_withSender(user, roomId) == {v \in sockets : roomId \in socketRooms[v]}

\* the sockets socket.to(roomId) reaches: every socket in the socket.io room but the sender's
Others(user, roomId) == {v \in sockets : roomId \in socketRooms[v]} \ {user}

\* what a client can send with each music-* event
EventData(action) ==
    CASE action = "play" ->
           [songId : {Null} \cup SongIds, currentTime : PlayTimes, volume : {0}]
      [] action = "pause" ->
           [songId : {Null}, currentTime : PauseTimes, volume : {0}]
      [] action = "seek" ->
           [songId : {Null}, currentTime : SeekTimes, volume : {0}]
      [] action = "next" ->
           [songId : {Null}, currentTime : {0}, volume : {0}]
      [] action = "volume" ->
           [songId : {Null}, currentTime : {0}, volume : Volumes]

\* the events with a song that exists or none, and volume 0
PlainData(action) ==
    {d \in EventData(action) : d.songId \in {Null, "s1"} /\ d.volume = 0}

\* canControl with the action test of its last disjunct dropped
canControl_anyAction(member, room, action) ==
    \/ member.role = "host"
    \/ member.role = "moderator"
    \/ room.settings.allowMembersToSkip

\* canControl with the settings test of its last disjunct dropped
canControl_ignoresSetting(member, room, action) ==
    \/ member.role = "host"
    \/ member.role = "moderator"
    \/ action = "next"

\* canControl
canControl(member, room, action) ==
    \/ member.role = "host"
    \/ member.role = "moderator"
    \/ (room.settings.allowMembersToSkip /\ action = "next")

\* if (!canControl && action !== 'volume') reject
Authorized(member, room, action) ==
    canControl(member, room, action) \/ action = "volume"

\* the range test without its lower bound
VolumeInRange_noLowerBound(volume) == volume <= 100

\* if (data.volume >= 0 && data.volume <= 100)
VolumeInRange(volume) == volume >= 0 /\ volume <= 100

\* updateData of case 'play' with a songId, and of case 'next' with a next song
TrackUpdate(songId, currentTime, user, date) ==
    ("currentTrack.songId" :> songId) @@
    ("currentTrack.startedAt" :> date) @@
    ("currentTrack.currentTime" :> currentTime) @@
    ("currentTrack.isPlaying" :> TRUE) @@
    ("currentTrack.playedBy" :> user)

\* updateData of case 'play' without a songId
ResumeUpdate(currentTime, date) ==
    ("currentTrack.isPlaying" :> TRUE) @@
    ("currentTrack.startedAt" :> date) @@
    ("currentTrack.currentTime" :> currentTime)

\* updateData of case 'pause'
PauseUpdate(currentTime) ==
    ("currentTrack.isPlaying" :> FALSE) @@
    ("currentTrack.currentTime" :> currentTime)

\* updateData of case 'seek'
SeekUpdate(currentTime, date) ==
    ("currentTrack.currentTime" :> currentTime) @@
    ("currentTrack.startedAt" :> date)

\* updateData of case 'next' on an empty queue
StopUpdate ==
    ("currentTrack.songId" :> Null) @@
    ("currentTrack.isPlaying" :> FALSE) @@
    ("currentTrack.currentTime" :> 0)

\* updateData of case 'volume'
VolumeUpdate(volume) == ("settings.volume" :> volume)

\* let updateData = {}; let broadcastData = {}
Empty == <<>>

Has(upd, key) == key \in DOMAIN upd

Field(upd, key, old) == IF Has(upd, key) THEN upd[key] ELSE old

\* an update that leaves the stored currentTime as it is
ApplyUpdate_keepsTime(room, upd) ==
    IF ~room.exists THEN room
    ELSE [room EXCEPT
        !.currentTrack =
            [songId      |-> Field(upd, "currentTrack.songId", @.songId),
             startedAt   |-> Field(upd, "currentTrack.startedAt", @.startedAt),
             currentTime |-> @.currentTime,
             isPlaying   |-> Field(upd, "currentTrack.isPlaying", @.isPlaying),
             playedBy    |-> Field(upd, "currentTrack.playedBy", @.playedBy)],
        !.settings.volume = Field(upd, "settings.volume", @)]

\* Room.findByIdAndUpdate(roomId, updateData): sets the named fields of the stored document
ApplyUpdate(room, upd) ==
    IF ~room.exists THEN room
    ELSE [room EXCEPT
        !.currentTrack =
            [songId      |-> Field(upd, "currentTrack.songId", @.songId),
             startedAt   |-> Field(upd, "currentTrack.startedAt", @.startedAt),
             currentTime |-> Field(upd, "currentTrack.currentTime", @.currentTime),
             isPlaying   |-> Field(upd, "currentTrack.isPlaying", @.isPlaying),
             playedBy    |-> Field(upd, "currentTrack.playedBy", @.playedBy)],
        !.settings.volume = Field(upd, "settings.volume", @)]

\* broadcastData of case 'play': carries the currentTrack of the document loaded at the start
PlayBroadcast(room, currentTime, date) ==
    ("action" :> "play") @@ ("currentTrack" :> room.currentTrack) @@
    ("currentTime" :> currentTime) @@ ("timestamp" :> date)

PauseBroadcast(currentTime, date) ==
    ("action" :> "pause") @@ ("currentTime" :> currentTime) @@ ("timestamp" :> date)

SeekBroadcast(currentTime, date) ==
    ("action" :> "seek") @@ ("currentTime" :> currentTime) @@ ("timestamp" :> date)

NextBroadcast(songId, user, room, date) ==
    ("action" :> "next") @@
    ("currentTrack" :> [songId |-> songId, startedAt |-> date, currentTime |-> 0,
                        isPlaying |-> TRUE, playedBy |-> user]) @@
    ("queue" :> room.queue) @@ ("timestamp" :> date)

StopBroadcast(date) ==
    ("action" :> "stop") @@ ("message" :> "Queue is empty") @@ ("timestamp" :> date)

VolumeBroadcast(volume, date) ==
    ("action" :> "volume") @@ ("volume" :> volume) @@ ("timestamp" :> date)

\* socket.emit('music-control-success', { action, ...broadcastData })
SuccessData(action, broadcastData) == broadcastData @@ ("action" :> action)

\* the handler ends: its slot is free again
Finish(t) == tasks' = [tasks EXCEPT ![t] = Idle]

\* socket.emit('error', ...) followed by return
Reject(t, message) ==
    /\ emitted' = Append(emitted, ErrorEvent(tasks[t].id, tasks[t].user, message))
    /\ Finish(t)

\* the task of a control event after the synchronous code of its switch case,
\* room being the document Room.findById returned and idx the index getNextSong picks
Prepared(k, room, idx) ==
    LET data == k.data IN
    CASE k.action = "play" /\ data.songId # Null ->
           [k EXCEPT !.pc = "incrementPlayCount", !.room = room,
              !.song = data.songId, !.songDoc = songs[data.songId],
              !.updateData = TrackUpdate(data.songId, data.currentTime, k.user, now)]
      [] k.action = "play" /\ data.songId = Null ->
           [k EXCEPT !.pc = "update", !.room = room,
              !.updateData = ResumeUpdate(data.currentTime, now),
              !.broadcastData = PlayBroadcast(room, data.currentTime, now)]
      [] k.action = "pause" ->
           [k EXCEPT !.pc = "update", !.room = room,
              !.updateData = PauseUpdate(data.currentTime),
              !.broadcastData = PauseBroadcast(data.currentTime, now)]
      [] k.action = "seek" ->
           [k EXCEPT !.pc = "update", !.room = room,
              !.updateData = SeekUpdate(data.currentTime, now),
              !.broadcastData = SeekBroadcast(data.currentTime, now)]
      [] k.action = "next" /\ Len(room.queue) > 0 ->
           LET picked == IF room.settings.shuffleMode THEN room ELSE SortedQueue(room)
               nextSong == picked.queue[idx]
           IN  [k EXCEPT !.pc = "save",
                  !.room = removeFromQueue(picked, nextSong.songId),
                  !.song = nextSong.songId, !.songDoc = songs[nextSong.songId],
                  !.updateData = TrackUpdate(nextSong.songId, 0, k.user, now)]
      [] k.action = "next" /\ Len(room.queue) = 0 ->
           [k EXCEPT !.pc = "update", !.room = room,
              !.updateData = StopUpdate,
              !.broadcastData = StopBroadcast(now)]
      [] k.action = "volume" /\ VolumeInRange(data.volume) ->
           [k EXCEPT !.pc = "update", !.room = room,
              !.updateData = VolumeUpdate(data.volume),
              !.broadcastData = VolumeBroadcast(data.volume, now)]
      [] k.action = "volume" /\ ~VolumeInRange(data.volume) ->
           [k EXCEPT !.pc = "update", !.room = room]

\* the indices getNextSong may return for a control event
NextChoices(k, room) ==
    IF k.action = "next" /\ Len(room.queue) > 0 /\ room.settings.shuffleMode
    THEN ShuffleChoices(room)
    ELSE {1}

\* socket.on('music-play' | 'music-pause' | 'music-seek' | 'music-next' | 'music-volume'):
\* the handler runs up to its first await, Room.findById
MusicEvent(user, roomId, action, data) ==
    LET id == Len(arrivals) + 1
        connection == activeConnections[user]
    IN
    /\ budget > 0
    /\ budget' = budget - 1
    /\ user \in sockets
    /\ arrivals' = Append(arrivals,
          [id |-> id, user |-> user, roomId |-> roomId, action |-> action, data |-> data])
    /\ IF connection.currentRoom = Null \/ connection.currentRoom # roomId
       THEN /\ emitted' = Append(emitted, ErrorEvent(id, user, "You must be in the room"))
            /\ UNCHANGED tasks
       ELSE /\ \E t \in 1..MaxTasks :
                 /\ FreeSlot(t)
                 /\ tasks' = [tasks EXCEPT ![t] =
                       [pc |-> "findRoom", id |-> id, user |-> user, roomId |-> roomId,
                        action |-> action, data |-> data, room |-> NoRoom,
                        song |-> Null, songDoc |-> 0,
                        updateData |-> Empty, broadcastData |-> Empty]]
            /\ UNCHANGED emitted
    /\ UNCHANGED <<rooms, songs, messages, activeConnections, socketRooms, sockets, applied, live, now>>

\* Room.findById resolves: the room, membership and role checks, Song.findById,
\* and the synchronous part of the switch case
ControlLoad(t) ==
    LET k == tasks[t]
        room == rooms[k.roomId]
        i == FindMember(room, k.user)
    IN
    /\ k.pc = "findRoom"
    /\ IF ~room.exists \/ ~room.isActive
         THEN Reject(t, "Room not found")
       ELSE IF i = 0
         THEN Reject(t, "Access denied")
       ELSE IF ~Authorized(room.members[i], room, k.action)
         THEN Reject(t, "Only host and moderators can control music")
       ELSE IF k.action = "play" /\ k.data.songId # Null /\ k.data.songId \notin Songs
         THEN Reject(t, "Song not found")
       ELSE /\ \E idx \in NextChoices(k, room) :
                 tasks' = [tasks EXCEPT ![t] = Prepared(k, room, idx)]
            /\ UNCHANGED emitted
    /\ UNCHANGED <<rooms, songs, messages, activeConnections, socketRooms, sockets,
                   arrivals, applied, live, now, budget>>

\* song.incrementPlayCount(roomId) resolves: the loaded Song document is saved with its
\* counter raised.  case 'play' goes on to removeFromQueue and room.save(), case 'next'
\* builds its broadcastData and saves the system message
ControlIncrementPlayCount(t) ==
    LET k == tasks[t] IN
    /\ k.pc = "incrementPlayCount"
    /\ songs' = [songs EXCEPT ![k.song] = k.songDoc + 1]
    /\ tasks' = [tasks EXCEPT ![t] =
          IF k.action = "play"
          THEN [k EXCEPT !.pc = "save", !.room = removeFromQueue(k.room, k.data.songId)]
          ELSE [k EXCEPT !.pc = "message",
                  !.broadcastData = NextBroadcast(k.song, k.user, k.room, now)]]
    /\ UNCHANGED <<rooms, messages, activeConnections, socketRooms, sockets, emitted,
                   arrivals, applied, live, now, budget>>

\* room.save() resolves: the handler's copy of the document replaces the stored one
ControlSave(t) ==
    LET k == tasks[t] IN
    /\ k.pc = "save"
    /\ rooms' = [rooms EXCEPT ![k.roomId] = k.room]
    /\ tasks' = [tasks EXCEPT ![t].pc =
          IF k.action = "play" THEN "message" ELSE "incrementPlayCount"]
    /\ UNCHANGED <<songs, messages, activeConnections, socketRooms, sockets, emitted,
                   arrivals, applied, live, now, budget>>

\* the handler going on without saving its message
ControlMessage_unsaved(t) ==
    LET k == tasks[t] IN
    /\ k.pc = "message"
    /\ tasks' = [tasks EXCEPT ![t] =
          IF k.action = "play"
          THEN [k EXCEPT !.pc = "update",
                  !.broadcastData = PlayBroadcast(k.room, k.data.currentTime, now)]
          ELSE [k EXCEPT !.pc = "update"]]
    /\ UNCHANGED <<rooms, songs, messages, activeConnections, socketRooms, sockets, emitted,
                   arrivals, applied, live, now, budget>>

\* playMessage.save() / nextMessage.save() resolves; case 'play' then builds its broadcastData
ControlMessage(t) ==
    LET k == tasks[t] IN
    /\ k.pc = "message"
    /\ messages' = Append(messages,
          [roomId |-> k.roomId, senderId |-> k.user, messageType |-> "song_play",
           id |-> k.id])
    /\ tasks' = [tasks EXCEPT ![t] =
          IF k.action = "play"
          THEN [k EXCEPT !.pc = "update",
                  !.broadcastData = PlayBroadcast(k.room, k.data.currentTime, now)]
          ELSE [k EXCEPT !.pc = "update"]]
    /\ UNCHANGED <<rooms, songs, activeConnections, socketRooms, sockets, emitted,
                   arrivals, applied, live, now, budget>>

\* Room.findByIdAndUpdate(roomId, updateData) is applied by the store
ControlUpdate(t) ==
    LET k == tasks[t] IN
    /\ k.pc = "update"
    /\ rooms' = [rooms EXCEPT ![k.roomId] = ApplyUpdate(@, k.updateData)]
    /\ applied' = Append(applied, k.id)
    /\ tasks' = [tasks EXCEPT ![t].pc = "emit"]
    /\ UNCHANGED <<songs, messages, activeConnections, socketRooms, sockets, emitted,
                   arrivals, live, now, budget>>

\* the await of findByIdAndUpdate returns: music-update to the others in the room,
\* music-control-success to the sender
ControlEmit(t) ==
    LET k == tasks[t] IN
    /\ k.pc = "emit"
    /\ emitted' = emitted \o
          << [ev |-> "music-update", id |-> k.id, from |-> k.user,
              to |-> Others(k.user, k.roomId), data |-> k.broadcastData],
             [ev |-> "music-control-success", id |-> k.id, from |-> k.user,
              to |-> {k.user}, data |-> SuccessData(k.action, k.broadcastData)] >>
    /\ Finish(t)
    /\ UNCHANGED <<rooms, songs, messages, activeConnections, socketRooms, sockets,
                   arrivals, applied, live, now, budget>>

\* the message of the catch block around handleMusicControl
ControlFailureText(action) ==
    CASE action = "play"   -> "Failed to play music"
      [] action = "pause"  -> "Failed to pause music"
      [] action = "seek"   -> "Failed to seek music"
      [] action = "next"   -> "Failed to skip to next song"
      [] action = "volume" -> "Failed to change volume"

\* the pcs at which the handler awaits a write to the store
WritePcs == {"incrementPlayCount", "save", "message", "update"}

\* the store rejects the write the handler awaits: nothing is written, the exception
\* leaves handleMusicControl and the catch block of the event handler emits an error
ControlFail(t) ==
    LET k == tasks[t] IN
    /\ k.pc \in WritePcs
    /\ Reject(t, ControlFailureText(k.action))
    /\ UNCHANGED <<rooms, songs, messages, activeConnections, socketRooms, sockets,
                   arrivals, applied, live, now, budget>>

----------------------------------------------------------------------------
(* socket/socketHandlers.js: connection, join-room, leave-room, disconnect.  *)
(* One step per await: Room.findById, room.save(), User.findByIdAndUpdate.   *)
(* An identity has one open socket at a time.  Connect is its first socket   *)
(* or one opened after the handlers of the previous socket have returned;    *)
(* Reconnect is one opened while the disconnect handler of the previous      *)
(* socket is still running.                                                  *)

\* the entry activeConnections.set stores on connection, bound to roomId or to nothing
Connection(roomId) == [connected |-> TRUE, currentRoom |-> roomId]

\* activeConnections.get(userId) of an identity without entry
NoConnection == [connected |-> FALSE, currentRoom |-> Null]

\* True when no handler of one of user's socket events is running
NoHandler(user) ==
    \A t \in 1..MaxTasks :
       IF tasks[t].pc \in {"idle", "loadRoom", "saveRoom", "loadQueue", "saveQueue"} THEN TRUE
       ELSE tasks[t].user # user

\* a socket event of user starts its handler in the lowest free slot
Start(id, user, roomId, action, pc) ==
    \E t \in 1..MaxTasks :
       /\ FreeSlot(t)
       /\ tasks' = [tasks EXCEPT ![t] =
             [pc |-> pc, id |-> id, user |-> user, roomId |-> roomId, action |-> action,
              data |-> Null, room |-> NoRoom]]

\* io.on('connection'): socketHandlers registers the identity, bound to no room
Connect(user) ==
    /\ budget > 0
    /\ budget' = budget - 1
    /\ user \notin sockets
    /\ NoHandler(user)
    /\ sockets' = sockets \cup {user}
    /\ socketRooms' = [socketRooms EXCEPT ![user] = {}]
    /\ activeConnections' = [activeConnections EXCEPT ![user] = Connection(Null)]
    /\ arrivals' = Append(arrivals,
          [id |-> Len(arrivals) + 1, user |-> user, roomId |-> Null,
           action |-> "connection", data |-> Null])
    /\ UNCHANGED <<rooms, songs, messages, tasks, emitted, applied, live, now>>

\* socket.on('join-room') up to the await of Room.findById; roomId Null is a payload
\* without roomId
JoinRoomEvent(user, roomId) ==
    LET id == Len(arrivals) + 1 IN
    /\ budget > 0
    /\ budget' = budget - 1
    /\ user \in sockets
    /\ arrivals' = Append(arrivals,
          [id |-> id, user |-> user, roomId |-> roomId, action |-> "join-room",
           data |-> Null])
    /\ IF roomId = Null
       THEN /\ emitted' = Append(emitted, ErrorEvent(id, user, "Room ID is required"))
            /\ UNCHANGED tasks
       ELSE /\ Start(id, user, roomId, "join-room", "joinFind")
            /\ UNCHANGED emitted
    /\ UNCHANGED <<rooms, songs, messages, activeConnections, socketRooms, sockets,
                   applied, live, now>>

\* Room.findById resolves: the room and membership checks, socket.leave of the previous
\* room, socket.join, the binding, updateMemberStatus; without registry entry the
\* assignment of currentRoom throws after socket.join and the catch block answers
JoinRoomLoad(t) ==
    LET k == tasks[t]
        room == rooms[k.roomId]
        connection == activeConnections[k.user]
    IN
    /\ k.pc = "joinFind"
    /\ IF ~room.exists \/ ~room.isActive
         THEN /\ Reject(t, "Room not found")
              /\ UNCHANGED <<activeConnections, socketRooms>>
       ELSE IF ~IsMember(room, k.user)
         THEN /\ Reject(t, "Access denied. You are not a room member.")
              /\ UNCHANGED <<activeConnections, socketRooms>>
       ELSE IF ~connection.connected
         THEN /\ socketRooms' = [socketRooms EXCEPT ![k.user] = @ \cup {k.roomId}]
              /\ Reject(t, "Failed to join room")
              /\ UNCHANGED activeConnections
       ELSE /\ socketRooms' = [socketRooms EXCEPT ![k.user] =
                                  (@ \ {connection.currentRoom}) \cup {k.roomId}]
            /\ activeConnections' = [activeConnections EXCEPT ![k.user].currentRoom = k.roomId]
            /\ tasks' = [tasks EXCEPT ![t] =
                  [k EXCEPT !.pc = "joinSave",
                            !.room = updateMemberStatus(room, k.user, TRUE)]]
            /\ UNCHANGED emitted
    /\ UNCHANGED <<rooms, songs, messages, sockets, arrivals, applied, live, now, budget>>

\* room.save() resolves; User.findByIdAndUpdate is awaited
JoinRoomSave(t) ==
    LET k == tasks[t] IN
    /\ k.pc = "joinSave"
    /\ rooms' = [rooms EXCEPT ![k.roomId] = k.room]
    /\ tasks' = [tasks EXCEPT ![t].pc = "joinEmit"]
    /\ UNCHANGED <<songs, messages, activeConnections, socketRooms, sockets, emitted,
                   arrivals, applied, live, now, budget>>

\* room-joined to the sender, user-joined to the others in the room
JoinRoomEmit(t) ==
    LET k == tasks[t] IN
    /\ k.pc = "joinEmit"
    /\ emitted' = emitted \o
          << [ev |-> "room-joined", id |-> k.id, from |-> k.user, to |-> {k.user},
              data |-> [message |-> "Successfully joined room"]],
             [ev |-> "user-joined", id |-> k.id, from |-> k.user,
              to |-> Others(k.user, k.roomId), data |-> [user |-> k.user]] >>
    /\ Finish(t)
    /\ UNCHANGED <<rooms, songs, messages, activeConnections, socketRooms, sockets,
                   arrivals, applied, live, now, budget>>

\* socket.on('leave-room') up to the await of Room.findById; returns at once when the
\* identity is not bound to roomId
LeaveRoomEvent(user, roomId) ==
    LET id == Len(arrivals) + 1
        connection == activeConnections[user]
    IN
    /\ budget > 0
    /\ budget' = budget - 1
    /\ user \in sockets
    /\ arrivals' = Append(arrivals,
          [id |-> id, user |-> user, roomId |-> roomId, action |-> "leave-room",
           data |-> Null])
    /\ IF connection.currentRoom = Null \/ connection.currentRoom # roomId
       THEN UNCHANGED tasks
       ELSE Start(id, user, roomId, "leave-room", "leaveFind")
    /\ UNCHANGED <<rooms, songs, messages, activeConnections, socketRooms, sockets,
                   emitted, applied, live, now>>

\* Room.findById resolves: updateMemberStatus(userId, false) if the room exists
LeaveRoomLoad(t) ==
    LET k == tasks[t]
        room == rooms[k.roomId]
    IN
    /\ k.pc = "leaveFind"
    /\ tasks' = [tasks EXCEPT ![t] =
          IF room.exists
          THEN [k EXCEPT !.pc = "leaveSave", !.room = updateMemberStatus(room, k.user, FALSE)]
          ELSE [k EXCEPT !.pc = "leaveEnd"]]
    /\ UNCHANGED <<rooms, songs, messages, activeConnections, socketRooms, sockets,
                   emitted, arrivals, applied, live, now, budget>>

\* room.save() resolves; User.findByIdAndUpdate is awaited
LeaveRoomSave(t) ==
    LET k == tasks[t] IN
    /\ k.pc = "leaveSave"
    /\ rooms' = [rooms EXCEPT ![k.roomId] = k.room]
    /\ tasks' = [tasks EXCEPT ![t].pc = "leaveEnd"]
    /\ UNCHANGED <<songs, messages, activeConnections, socketRooms, sockets, emitted,
                   arrivals, applied, live, now, budget>>

\* socket.leave(roomId), connection.currentRoom = null on the entry read when the event
\* arrived, user-left to the others in the room, room-left to the sender
LeaveRoomEnd(t) ==
    LET k == tasks[t] IN
    /\ k.pc = "leaveEnd"
    /\ socketRooms' = [socketRooms EXCEPT ![k.user] = @ \ {k.roomId}]
    /\ activeConnections' =
          IF activeConnections[k.user].connected
          THEN [activeConnections EXCEPT ![k.user].currentRoom = Null]
          ELSE activeConnections
    /\ emitted' = emitted \o
          << [ev |-> "user-left", id |-> k.id, from |-> k.user,
              to |-> Others(k.user, k.roomId), data |-> [user |-> k.user]],
             [ev |-> "room-left", id |-> k.id, from |-> k.user, to |-> {k.user},
              data |-> [message |-> "Successfully left room"]] >>
    /\ Finish(t)
    /\ UNCHANGED <<rooms, songs, messages, sockets, arrivals, applied, live, now, budget>>

\* the socket closes and has left its socket.io rooms when socket.on('disconnect')
\* runs: with a bound room Room.findById is awaited, otherwise User.findByIdAndUpdate
Disconnect(user) ==
    LET id == Len(arrivals) + 1
        connection == activeConnections[user]
    IN
    /\ budget > 0
    /\ budget' = budget - 1
    /\ user \in sockets
    /\ sockets' = sockets \ {user}
    /\ socketRooms' = [socketRooms EXCEPT ![user] = {}]
    /\ arrivals' = Append(arrivals,
          [id |-> id, user |-> user, roomId |-> connection.currentRoom,
           action |-> "disconnect", data |-> Null])
    /\ IF connection.currentRoom # Null
       THEN Start(id, user, connection.currentRoom, "disconnect", "disconnectFind")
       ELSE Start(id, user, Null, "disconnect", "disconnectEnd")
    /\ UNCHANGED <<rooms, songs, messages, activeConnections, emitted, applied, live, now>>

\* the sockets socket.to(roomId) reaches from a socket that has closed: every socket in
\* the socket.io room
InRoom(roomId) == {v \in sockets : roomId \in socketRooms[v]}

\* connection.currentRoom as the disconnect handler sees it: connection is the object
\* activeConnections.get returned when the handler started, which is the registry's
\* entry unless a new socket of the identity has replaced it since; the handler then
\* holds the replaced object in data
HeldRoom(k) ==
    IF k.action = "disconnect" THEN activeConnections[k.user].currentRoom
    ELSE k.data.currentRoom

\* True when the handlers of user's socket events that are running are disconnect
\* handlers, and there is one
ClosingOnly(user) ==
    /\ \E t \in 1..MaxTasks :
          tasks[t].pc \in {"disconnectFind", "disconnectSave", "disconnectEnd"}
          /\ tasks[t].user = user
    /\ \A t \in 1..MaxTasks :
          IF tasks[t].pc \in {"idle", "loadRoom", "saveRoom", "loadQueue", "saveQueue",
                              "disconnectFind", "disconnectSave", "disconnectEnd"}
          THEN TRUE
          ELSE tasks[t].user # user

\* io.on('connection') for a new socket of an identity whose previous socket has closed
\* and whose disconnect handler has not returned: activeConnections.set replaces the
\* entry, the running handler keeps the object it read
Reconnect(user) ==
    /\ budget > 0
    /\ budget' = budget - 1
    /\ user \notin sockets
    /\ ClosingOnly(user)
    /\ sockets' = sockets \cup {user}
    /\ socketRooms' = [socketRooms EXCEPT ![user] = {}]
    /\ activeConnections' = [activeConnections EXCEPT ![user] = Connection(Null)]
    /\ tasks' = [t \in 1..MaxTasks |->
          IF IsIdle(t) THEN tasks[t]
          ELSE IF tasks[t].user = user /\ tasks[t].action = "disconnect"
            THEN [tasks[t] EXCEPT !.action = "disconnect of replaced entry",
                                  !.data = activeConnections[user]]
          ELSE tasks[t]]
    /\ arrivals' = Append(arrivals,
          [id |-> Len(arrivals) + 1, user |-> user, roomId |-> Null,
           action |-> "connection", data |-> Null])
    /\ UNCHANGED <<rooms, songs, messages, emitted, applied, live, now>>

\* Room.findById resolves: updateMemberStatus(userId, false) if the room exists;
\* otherwise user-left is emitted at once
DisconnectLoad(t) ==
    LET k == tasks[t]
        room == rooms[k.roomId]
    IN
    /\ k.pc = "disconnectFind"
    /\ IF room.exists
       THEN /\ tasks' = [tasks EXCEPT ![t] =
                  [k EXCEPT !.pc = "disconnectSave",
                            !.room = updateMemberStatus(room, k.user, FALSE)]]
            /\ UNCHANGED emitted
       ELSE /\ tasks' = [tasks EXCEPT ![t].pc = "disconnectEnd"]
            /\ emitted' = Append(emitted,
                  [ev |-> "user-left", id |-> k.id, from |-> k.user,
                   to |-> InRoom(HeldRoom(k)),
                   data |-> [user |-> k.user]])
    /\ UNCHANGED <<rooms, songs, messages, activeConnections, socketRooms, sockets,
                   arrivals, applied, live, now, budget>>

\* room.save() resolves: user-left to the room connection.currentRoom names now;
\* User.findByIdAndUpdate is awaited
DisconnectSave(t) ==
    LET k == tasks[t] IN
    /\ k.pc = "disconnectSave"
    /\ rooms' = [rooms EXCEPT ![k.roomId] = k.room]
    /\ emitted' = Append(emitted,
          [ev |-> "user-left", id |-> k.id, from |-> k.user,
           to |-> InRoom(HeldRoom(k)),
           data |-> [user |-> k.user]])
    /\ tasks' = [tasks EXCEPT ![t].pc = "disconnectEnd"]
    /\ UNCHANGED <<songs, messages, activeConnections, socketRooms, sockets,
                   arrivals, applied, live, now, budget>>

\* User.findByIdAndUpdate resolves: activeConnections.delete(socket.userId)
DisconnectEnd(t) ==
    LET k == tasks[t] IN
    /\ k.pc = "disconnectEnd"
    /\ activeConnections' = [activeConnections EXCEPT ![k.user] = NoConnection]
    /\ Finish(t)
    /\ UNCHANGED <<rooms, songs, messages, socketRooms, sockets, emitted,
                   arrivals, applied, live, now, budget>>

----------------------------------------------------------------------------
(* backend/routes rooms router: create, join, leave, settings, role update,  *)
(* kick.                                                                     *)
(* Each request is a task: loadRoom and the route's code up to room.save(),  *)
(* then the save with the writes and the response that follow it.            *)

\* res.status(status).json({ error | message })
Response(id, user, status, text) ==
    [ev |-> "response", id |-> id, from |-> user, to |-> {user},
     data |-> [status |-> status, text |-> text]]

\* new Message({ roomId, senderId, messageType })
SystemMessage(roomId, user, messageType, id) ==
    [roomId |-> roomId, senderId |-> user, messageType |-> messageType, id |-> id]

NoMessage == Null

\* res.status(...).json(...) followed by return
Respond(t, status, text) ==
    /\ emitted' = Append(emitted, Response(tasks[t].id, tasks[t].user, status, text))
    /\ Finish(t)

\* POST /api/rooms: new Room(...), addMember(creator, 'host'), save
CreateRoom(user, roomId) ==
    LET id == Len(arrivals) + 1
        room == [exists |-> TRUE, isActive |-> TRUE, hostId |-> user, isPrivate |-> FALSE,
                 passcode |-> Null, maxMembers |-> 50, members |-> <<>>, queue |-> <<>>,
                 currentTrack |-> NullTrack, settings |-> DefaultSettings(FALSE, FALSE)]
    IN
    /\ budget > 0
    /\ budget' = budget - 1
    /\ ~rooms[roomId].exists
    /\ arrivals' = Append(arrivals,
          [id |-> id, user |-> user, roomId |-> roomId, action |-> "create", data |-> Null])
    /\ rooms' = [rooms EXCEPT ![roomId] = addMember(room, user, "host", now)]
    /\ live' = {user}
    /\ emitted' = Append(emitted, Response(id, user, 201, "Room created successfully"))
    /\ UNCHANGED <<songs, messages, activeConnections, socketRooms, sockets, tasks, applied, now>>

\* a request of the rooms router arrives: loadRoom awaits Room.findById
RestRequest(user, roomId, action, data) ==
    LET id == Len(arrivals) + 1 IN
    /\ budget > 0
    /\ budget' = budget - 1
    /\ arrivals' = Append(arrivals,
          [id |-> id, user |-> user, roomId |-> roomId, action |-> action, data |-> data])
    /\ \E t \in 1..MaxTasks :
          /\ FreeSlot(t)
          /\ tasks' = [tasks EXCEPT ![t] =
                [pc |-> "loadRoom", id |-> id, user |-> user, roomId |-> roomId,
                 action |-> action, data |-> data, room |-> NoRoom,
                 message |-> NoMessage, text |-> ""]]
    /\ UNCHANGED <<rooms, songs, messages, activeConnections, socketRooms, sockets, emitted,
                   applied, live, now>>

\* what a client can send with each request
NoData ==
    [userId |-> Null, role |-> Null, passcode |-> Null, volume |-> 0,
     songId |-> Null, order |-> <<>>]

RestData(action) ==
    CASE action = "join"  -> {NoData}
      [] action = "leave" -> {NoData}
      [] action = "kick"  -> {[NoData EXCEPT !.userId = v] : v \in Users}
      [] action = "role"  ->
           {[NoData EXCEPT !.userId = v, !.role = r] :
               v \in Users \ {"h"}, r \in {"member", "moderator"}}
      [] action = "settings" -> {[NoData EXCEPT !.volume = v] : v \in Volumes}

\* passcodes sent with a join: none, empty, right, right with a blank before it, wrong
Passcodes == {Null, "", "p1", " p1", "p2"}

\* body('passcode').optional().trim()
Trim(passcode) == IF passcode = " p1" THEN "p1" ELSE passcode

JoinData == {[NoData EXCEPT !.passcode = p] : p \in Passcodes}

\* the capacity check with > for >=
JoinFailure_overCapacity(room, passcode) ==
    IF Len(room.members) > room.maxMembers THEN "Room is full"
    ELSE IF room.isPrivate /\ (passcode \in {Null, ""} \/ passcode # room.passcode)
      THEN "Invalid passcode"
    ELSE Null

\* the capacity and passcode checks of the join route: the error, Null if none
JoinFailure(room, passcode) ==
    IF Len(room.members) >= room.maxMembers THEN "Room is full"
    ELSE IF room.isPrivate /\ (passcode \in {Null, ""} \/ passcode # room.passcode)
      THEN "Invalid passcode"
    ELSE Null

\* settings.volume of the schema: min 0, max 100, checked by save()
ValidVolume(volume) == volume >= 0 /\ volume <= 100

RestActions == {"join", "leave", "kick", "role"}

\* the host branch without newHost.role = 'host'
transferHost_keepsRole(room, newHostId) == [room EXCEPT !.hostId = newHostId]

\* POST /:roomId/leave, host branch with other members left:
\* room.hostId = newHost.userId; newHost.role = 'host'
transferHost(room, newHostId) ==
    LET i == FindMember(room, newHostId) IN
    [room EXCEPT !.hostId = newHostId, !.members[i].role = "host"]

\* the leave route without the branch that deactivates the room
leaveRoom_staysActive(room, user) ==
    LET otherMembers == SelectSeq(room.members, LAMBDA mem : mem.userId # user)
        hosted ==
            IF room.hostId = user /\ Len(otherMembers) > 0
            THEN transferHost(room, SortByJoinedAt(otherMembers)[1].userId)
            ELSE room
    IN  removeMember(hosted, user)

\* POST /:roomId/leave: the document the route saves
leaveRoom(room, user) ==
    LET otherMembers == SelectSeq(room.members, LAMBDA mem : mem.userId # user)
        hosted ==
            IF room.hostId = user
            THEN IF Len(otherMembers) > 0
                 THEN transferHost(room, SortByJoinedAt(otherMembers)[1].userId)
                 ELSE [room EXCEPT !.isActive = FALSE]
            ELSE room
    IN  removeMember(hosted, user)

\* loadRoom resolves; the route's middleware and code run up to room.save()
RestLoad(t) ==
    LET k == tasks[t]
        room == rooms[k.roomId]
        i == FindMember(room, k.user)
        j == FindMember(room, k.data.userId)
        Save(doc, message, text) ==
            /\ tasks' = [tasks EXCEPT ![t] =
                  [k EXCEPT !.pc = "saveRoom", !.room = doc, !.message = message, !.text = text]]
            /\ UNCHANGED emitted
    IN
    /\ k.pc = "loadRoom"
    /\ IF ~room.exists \/ ~room.isActive
         THEN Respond(t, 404, "Room not found")
       ELSE CASE k.action = "join" ->
                   IF i # 0
                     THEN Save(updateMemberStatus(room, k.user, TRUE), NoMessage,
                               "Already a member, status updated")
                   ELSE IF JoinFailure(room, Trim(k.data.passcode)) # Null
                     THEN Respond(t, 400, JoinFailure(room, Trim(k.data.passcode)))
                   ELSE Save(addMember(room, k.user, "member", now), "user_join",
                             "Joined room successfully")
              [] k.action = "leave" ->
                   IF i = 0
                     THEN Respond(t, 403, "Access denied. You must be a room member to perform this action.")
                   ELSE LET doc == leaveRoom(room, k.user) IN
                        Save(doc, IF doc.isActive THEN "user_leave" ELSE NoMessage,
                             "Left room successfully")
              [] k.action = "role" ->
                   IF room.hostId # k.user
                     THEN Respond(t, 403, "Access denied. Only room host can perform this action.")
                   ELSE IF j = 0
                     THEN Respond(t, 404, "Member not found")
                   ELSE IF room.members[j].role = "host"
                     THEN Respond(t, 400, "Cannot change host role")
                   ELSE Save([room EXCEPT !.members[j].role = k.data.role], NoMessage,
                             "Member role updated successfully")
              [] k.action = "kick" ->
                   IF i = 0 \/ room.members[i].role \notin {"host", "moderator"}
                     THEN Respond(t, 403, "Access denied. You must be a room moderator or host to perform this action.")
                   ELSE IF k.data.userId = k.user
                     THEN Respond(t, 400, "Cannot kick yourself")
                   ELSE IF j = 0
                     THEN Respond(t, 404, "Member not found")
                   ELSE IF room.members[j].role = "host"
                     THEN Respond(t, 400, "Cannot kick room host")
                   ELSE Save(removeMember(room, k.data.userId), "system",
                             "Member kicked successfully")
              [] k.action = "settings" ->
                   IF room.hostId # k.user
                     THEN Respond(t, 403, "Access denied. Only room host can perform this action.")
                   ELSE Save([room EXCEPT !.settings.volume = k.data.volume], NoMessage,
                             "Room updated successfully")
    /\ UNCHANGED <<rooms, songs, messages, activeConnections, socketRooms, sockets,
                   arrivals, applied, live, now, budget>>

\* the message of the route's catch block
FailureText(action) ==
    CASE action = "join"     -> "Failed to join room"
      [] action = "leave"    -> "Failed to leave room"
      [] action = "kick"     -> "Failed to kick member"
      [] action = "role"     -> "Failed to update member role"
      [] action = "settings" -> "Failed to update room"

\* room.save() resolves.  A document the schema rejects is not written and the route's
\* catch block answers 500; otherwise the route's copy of the document replaces the
\* stored one, the system message is saved and the response sent
RestSave(t) ==
    LET k == tasks[t] IN
    /\ k.pc = "saveRoom"
    /\ IF ~ValidVolume(k.room.settings.volume)
       THEN /\ Respond(t, 500, FailureText(k.action))
            /\ UNCHANGED <<rooms, messages, live>>
       ELSE /\ rooms' = [rooms EXCEPT ![k.roomId] = k.room]
            /\ messages' = IF k.message = NoMessage THEN messages
                           ELSE Append(messages,
                                       SystemMessage(k.roomId, k.user, k.message, k.id))
            /\ live' = CASE k.action = "join"  -> live \cup {k.user}
                         [] k.action = "leave" -> live \ {k.user}
                         [] k.action = "kick"  -> live \ {k.data.userId}
                         [] OTHER -> live
            /\ Respond(t, 200, k.text)
    /\ UNCHANGED <<songs, activeConnections, socketRooms, sockets, arrivals, applied, now, budget>>

----------------------------------------------------------------------------
(* backend/routes music router: queue add, remove, reorder.  Each request is *)
(* a task: Room.findById and the route's code up to room.save(), then the    *)
(* save with the message and the response that follow it.                    *)

\* orders sent with a reorder
QueueOrders == {<<"s2", "s1">>, <<"s2", "s2">>, <<"s2">>}

\* what a client can send with each request of the queue routes
QueueData(action) ==
    CASE action = "queueAdd"     -> {[NoData EXCEPT !.songId = x] : x \in Songs \cup SongIds}
      [] action = "queueRemove"  -> {[NoData EXCEPT !.songId = x] : x \in Songs}
      [] action = "queueReorder" -> {[NoData EXCEPT !.order = o] : o \in QueueOrders}

QueueActions == {"queueAdd", "queueRemove", "queueReorder"}

\* a request of the queue routes arrives: Room.findById is awaited
QueueRequest(user, roomId, action, data) ==
    LET id == Len(arrivals) + 1 IN
    /\ budget > 0
    /\ budget' = budget - 1
    /\ arrivals' = Append(arrivals,
          [id |-> id, user |-> user, roomId |-> roomId, action |-> action, data |-> data])
    /\ \E t \in 1..MaxTasks :
          /\ FreeSlot(t)
          /\ tasks' = [tasks EXCEPT ![t] =
                [pc |-> "loadQueue", id |-> id, user |-> user, roomId |-> roomId,
                 action |-> action, data |-> data, room |-> NoRoom,
                 message |-> NoMessage, text |-> ""]]
    /\ UNCHANGED <<rooms, songs, messages, activeConnections, socketRooms, sockets,
                   emitted, applied, live, now>>

\* Room.findById resolves; the checks of the route run, with Song.findById, up to
\* room.save()
QueueLoad(t) ==
    LET k == tasks[t]
        room == rooms[k.roomId]
        i == FindMember(room, k.user)
        Save(doc, message, text) ==
            /\ tasks' = [tasks EXCEPT ![t] =
                  [k EXCEPT !.pc = "saveQueue", !.room = doc, !.message = message, !.text = text]]
            /\ UNCHANGED emitted
    IN
    /\ k.pc = "loadQueue"
    /\ IF ~room.exists \/ ~room.isActive
         THEN Respond(t, 404, "Room not found")
       ELSE CASE k.action = "queueAdd" ->
                   IF i = 0
                     THEN Respond(t, 403, "You must be a room member to add songs")
                   ELSE IF ~room.settings.allowMembersToAddSongs
                           /\ room.members[i].role = "member"
                     THEN Respond(t, 403, "Only moderators and host can add songs")
                   ELSE IF k.data.songId \notin Songs
                     THEN Respond(t, 404, "Song not found")
                   ELSE IF k.data.songId \in QueueIds(room.queue)
                     THEN Respond(t, 400, "Song is already in queue")
                   ELSE Save(addToQueue(room, k.data.songId, k.user), "song_add",
                             "Song added to queue")
              [] k.action = "queueRemove" ->
                   LET q == FindQueueItem(room.queue, k.data.songId) IN
                   IF i = 0
                     THEN Respond(t, 403, "You must be a room member")
                   ELSE IF q = 0
                     THEN Respond(t, 404, "Song not found in queue")
                   ELSE IF room.queue[q].addedBy # k.user
                           /\ room.members[i].role \notin {"host", "moderator"}
                     THEN Respond(t, 403, "You can only remove songs you added")
                   ELSE Save(removeFromQueue(room, k.data.songId), NoMessage,
                             "Song removed from queue")
              [] k.action = "queueReorder" ->
                   LET validItems == SelectSeq(k.data.order,
                                               LAMBDA x : x \in QueueIds(room.queue))
                   IN
                   IF i = 0 \/ room.members[i].role \notin {"host", "moderator"}
                     THEN Respond(t, 403, "Only hosts and moderators can reorder queue")
                   ELSE IF Len(validItems) # Len(room.queue)
                     THEN Respond(t, 400, "Invalid queue order")
                   ELSE Save(reorderQueue(room, validItems), NoMessage,
                             "Queue reordered successfully")
    /\ UNCHANGED <<rooms, songs, messages, activeConnections, socketRooms, sockets,
                   arrivals, applied, live, now, budget>>

\* room.save() resolves: the route's copy of the document replaces the stored one, the
\* song_add message is saved and the response sent
QueueSave(t) ==
    LET k == tasks[t] IN
    /\ k.pc = "saveQueue"
    /\ rooms' = [rooms EXCEPT ![k.roomId] = k.room]
    /\ messages' = IF k.message = NoMessage THEN messages
                   ELSE Append(messages, SystemMessage(k.roomId, k.user, k.message, k.id))
    /\ Respond(t, 200, k.text)
    /\ UNCHANGED <<songs, activeConnections, socketRooms, sockets, arrivals, applied,
                   live, now, budget>>

----------------------------------------------------------------------------
(* Specification of the music control handlers and the settings route on   *)
(* one room with a host, a moderator and a member, all connected and       *)
(* joined to the room                                                      *)

\* a queue as addToQueue builds it from the given songs
RECURSIVE QueueOf(_, _)
QueueOf(songIds, n) ==
    IF n = 0 THEN <<>>
    ELSE Append(QueueOf(songIds, n - 1),
                [songId |-> songIds[n], addedBy |-> "h", order |-> n])

ControlRoom(skip, shuffle, songIds) ==
    [exists |-> TRUE, isActive |-> TRUE, hostId |-> "h", isPrivate |-> FALSE,
     passcode |-> Null, maxMembers |-> 50,
     members |-> << [userId |-> "h", role |-> "host", joinedAt |-> 1, isOnline |-> TRUE],
                    [userId |-> "m", role |-> "moderator", joinedAt |-> 1, isOnline |-> TRUE],
                    [userId |-> "u", role |-> "member", joinedAt |-> 1, isOnline |-> TRUE] >>,
     queue |-> QueueOf(songIds, Len(songIds)),
     currentTrack |-> NullTrack,
     settings |-> DefaultSettings(skip, shuffle)]

\* the queue and shuffleMode the room starts with
InitQueues == {<<FALSE, <<>> >>, <<FALSE, <<"s1", "s2">> >>, <<TRUE, <<"s1", "s2">> >>}

InitControl(events) ==
    /\ budget = events
    /\ \E skip \in BOOLEAN, q \in InitQueues :
          rooms = [r \in RoomIds |-> ControlRoom(skip, q[1], q[2])]
    /\ songs = [s \in Songs |-> 0]
    /\ messages = <<>>
    /\ activeConnections = [v \in Users |-> Connection("r1")]
    /\ socketRooms = [v \in Users |-> {"r1"}]
    /\ sockets = Users
    /\ tasks = [t \in 1..MaxTasks |-> Idle]
    /\ emitted = <<>>
    /\ arrivals = <<>>
    /\ applied = <<>>
    /\ live = {}
    /\ now = 1

NextControl ==
    \/ \E user \in Users, roomId \in RoomIds, action \in Actions :
          \E data \in EventData(action) : MusicEvent(user, roomId, action, data)
    \/ \E t \in 1..MaxTasks : ControlLoad(t)
    \/ \E t \in 1..MaxTasks : ControlIncrementPlayCount(t)
    \/ \E t \in 1..MaxTasks : ControlSave(t)
    \/ \E t \in 1..MaxTasks : ControlMessage(t)
    \/ \E t \in 1..MaxTasks : ControlUpdate(t)
    \/ \E t \in 1..MaxTasks : ControlEmit(t)
    \/ \E user \in Users, roomId \in RoomIds :
          \E data \in RestData("settings") : RestRequest(user, roomId, "settings", data)
    \/ \E t \in 1..MaxTasks : RestLoad(t)
    \/ \E t \in 1..MaxTasks : RestSave(t)

\* one control event
SpecControl == InitControl(MaxEvents) /\ [][NextControl]_vars

\* control events whose handlers overlap
SpecOverlap == InitControl(MaxOverlap) /\ [][NextControl]_vars

\* one control event on a room which only some of the connected members have joined
InitDelivery ==
    /\ budget = MaxEvents
    /\ \E skip \in BOOLEAN, q \in InitQueues :
          rooms = [r \in RoomIds |-> ControlRoom(skip, q[1], q[2])]
    /\ \E joined \in SUBSET Users :
          /\ activeConnections =
                [v \in Users |-> IF v \in joined THEN Connection("r1") ELSE Connection(Null)]
          /\ socketRooms = [v \in Users |-> IF v \in joined THEN {"r1"} ELSE {}]
    /\ songs = [s \in Songs |-> 0]
    /\ messages = <<>>
    /\ sockets = Users
    /\ tasks = [t \in 1..MaxTasks |-> Idle]
    /\ emitted = <<>>
    /\ arrivals = <<>>
    /\ applied = <<>>
    /\ live = {}
    /\ now = 1

SpecDelivery == InitDelivery /\ [][NextControl]_vars

\* the control events of the host and the pause of the moderator, overlapping, on a
\* room whose queue is empty or holds two songs
InitLastWrite ==
    /\ budget = MaxOverlap
    /\ \E songIds \in {<<>>, <<"s1", "s2">>} :
          rooms = [r \in RoomIds |-> ControlRoom(FALSE, FALSE, songIds)]
    /\ songs = [s \in Songs |-> 0]
    /\ messages = <<>>
    /\ activeConnections = [v \in Users |-> Connection("r1")]
    /\ socketRooms = [v \in Users |-> {"r1"}]
    /\ sockets = Users
    /\ tasks = [t \in 1..MaxTasks |-> Idle]
    /\ emitted = <<>>
    /\ arrivals = <<>>
    /\ applied = <<>>
    /\ live = {}
    /\ now = 1

NextLastWrite ==
    \/ \E roomId \in RoomIds, action \in Actions \ {"volume"} :
          \E data \in PlainData(action) : MusicEvent("h", roomId, action, data)
    \/ \E roomId \in RoomIds :
          \E data \in PlainData("pause") : MusicEvent("m", roomId, "pause", data)
    \/ \E t \in 1..MaxTasks : ControlLoad(t)
    \/ \E t \in 1..MaxTasks : ControlIncrementPlayCount(t)
    \/ \E t \in 1..MaxTasks : ControlSave(t)
    \/ \E t \in 1..MaxTasks : ControlMessage(t)
    \/ \E t \in 1..MaxTasks : ControlUpdate(t)
    \/ \E t \in 1..MaxTasks : ControlEmit(t)

SpecLastWrite == InitLastWrite /\ [][NextLastWrite]_vars

\* control events on a room that has both songs queued, with a store whose writes may fail
InitFailure ==
    /\ budget = MaxEvents
    /\ \E shuffle \in BOOLEAN :
          rooms = [r \in RoomIds |-> ControlRoom(FALSE, shuffle, <<"s1", "s2">>)]
    /\ songs = [s \in Songs |-> 0]
    /\ messages = <<>>
    /\ activeConnections = [v \in Users |-> Connection("r1")]
    /\ socketRooms = [v \in Users |-> {"r1"}]
    /\ sockets = Users
    /\ tasks = [t \in 1..MaxTasks |-> Idle]
    /\ emitted = <<>>
    /\ arrivals = <<>>
    /\ applied = <<>>
    /\ live = {}
    /\ now = 1

NextFailure ==
    \/ \E user \in {"h", "m"}, roomId \in RoomIds, action \in Actions :
          \E data \in PlainData(action) : MusicEvent(user, roomId, action, data)
    \/ \E t \in 1..MaxTasks : ControlLoad(t)
    \/ \E t \in 1..MaxTasks : ControlIncrementPlayCount(t)
    \/ \E t \in 1..MaxTasks : ControlSave(t)
    \/ \E t \in 1..MaxTasks : ControlMessage(t)
    \/ \E t \in 1..MaxTasks : ControlUpdate(t)
    \/ \E t \in 1..MaxTasks : ControlEmit(t)
    \/ \E t \in 1..MaxTasks : ControlFail(t)

SpecFailure == InitFailure /\ [][NextFailure]_vars

----------------------------------------------------------------------------
(* Specification of the membership routes on one room *)

Member(userId, role, joinedAt, isOnline) ==
    [userId |-> userId, role |-> role, joinedAt |-> joinedAt, isOnline |-> isOnline]

\* member lists a room created by h reaches through joins, role updates and
\* disconnects; in the last one two members joined at the same time
InitMemberLists ==
    { << Member("h", "host", 1, TRUE), Member("m", "member", 1, TRUE) >>,
      << Member("h", "host", 1, TRUE), Member("m", "moderator", 1, TRUE),
         Member("u", "member", 2, FALSE) >>,
      << Member("h", "host", 1, TRUE), Member("u", "member", 2, TRUE),
         Member("m", "member", 2, TRUE) >> }

MembersRoom(members) ==
    [exists |-> TRUE, isActive |-> TRUE, hostId |-> "h", isPrivate |-> FALSE,
     passcode |-> Null, maxMembers |-> 50, members |-> members, queue |-> <<>>,
     currentTrack |-> NullTrack, settings |-> DefaultSettings(FALSE, FALSE)]

InitRooms == {NoRoom} \cup {MembersRoom(members) : members \in InitMemberLists}

InitMembers ==
    /\ \E room \in InitRooms :
          /\ rooms = [r \in RoomIds |-> room]
          /\ live = MemberIds(room)
    /\ songs = [s \in Songs |-> 0]
    /\ messages = <<>>
    /\ activeConnections = [v \in Users |-> NoConnection]
    /\ socketRooms = [v \in Users |-> {}]
    /\ sockets = {}
    /\ tasks = [t \in 1..MaxTasks |-> Idle]
    /\ emitted = <<>>
    /\ arrivals = <<>>
    /\ applied = <<>>
    /\ now = 3
    /\ budget = MaxOps

NextMembers ==
    \/ \E user \in Users, roomId \in RoomIds : CreateRoom(user, roomId)
    \/ \E user \in Users, roomId \in RoomIds, action \in RestActions :
          \E data \in RestData(action) : RestRequest(user, roomId, action, data)
    \/ \E t \in 1..MaxTasks : RestLoad(t)
    \/ \E t \in 1..MaxTasks : RestSave(t)

SpecMembers == InitMembers /\ [][NextMembers]_vars

----------------------------------------------------------------------------
(* Specification of the queue routes on one room with a host and a member; *)
(* u is not a member                                                        *)

QueueItem(songId, addedBy, order) ==
    [songId |-> songId, addedBy |-> addedBy, order |-> order]

\* allowMembersToAddSongs and the queue the room starts with: empty, two songs, and
\* what is left of two songs once the first was played or removed
InitQueueRooms ==
    { <<TRUE, <<>> >>,
      <<TRUE, <<QueueItem("s1", "m", 1), QueueItem("s2", "h", 2)>> >>,
      <<TRUE, <<QueueItem("s2", "m", 2)>> >>,
      <<FALSE, <<QueueItem("s2", "m", 2)>> >> }

QueueRoom(allow, queue) ==
    [exists |-> TRUE, isActive |-> TRUE, hostId |-> "h", isPrivate |-> FALSE,
     passcode |-> Null, maxMembers |-> 50,
     members |-> << Member("h", "host", 1, TRUE), Member("m", "member", 1, TRUE) >>,
     queue |-> queue, currentTrack |-> NullTrack,
     settings |-> [DefaultSettings(FALSE, FALSE) EXCEPT !.allowMembersToAddSongs = allow]]

InitQueue ==
    /\ \E q \in InitQueueRooms : rooms = [r \in RoomIds |-> QueueRoom(q[1], q[2])]
    /\ live = {"h", "m"}
    /\ songs = [s \in Songs |-> 0]
    /\ messages = <<>>
    /\ activeConnections = [v \in Users |-> NoConnection]
    /\ socketRooms = [v \in Users |-> {}]
    /\ sockets = {}
    /\ tasks = [t \in 1..MaxTasks |-> Idle]
    /\ emitted = <<>>
    /\ arrivals = <<>>
    /\ applied = <<>>
    /\ now = 3
    /\ budget = MaxOps

NextQueue ==
    \/ \E user \in Users, roomId \in RoomIds, action \in QueueActions :
          \E data \in QueueData(action) : QueueRequest(user, roomId, action, data)
    \/ \E t \in 1..MaxTasks : QueueLoad(t)
    \/ \E t \in 1..MaxTasks : QueueSave(t)

SpecQueue == InitQueue /\ [][NextQueue]_vars

----------------------------------------------------------------------------
(* Specification of the join and leave routes on one room that is full,    *)
(* private, both, or deactivated                                            *)

JoinRoom(isActive, isPrivate, maxMembers, members) ==
    [exists |-> TRUE, isActive |-> isActive, hostId |-> "h", isPrivate |-> isPrivate,
     passcode |-> IF isPrivate THEN "p1" ELSE Null, maxMembers |-> maxMembers,
     members |-> members, queue |-> <<>>, currentTrack |-> NullTrack,
     settings |-> DefaultSettings(FALSE, FALSE)]

InitJoinRooms ==
    LET hm == << Member("h", "host", 1, TRUE), Member("m", "member", 1, TRUE) >> IN
    { JoinRoom(TRUE, FALSE, 2, hm), JoinRoom(TRUE, TRUE, 3, hm),
      JoinRoom(TRUE, TRUE, 2, hm), JoinRoom(FALSE, FALSE, 2, <<>>) }

InitJoin ==
    /\ \E room \in InitJoinRooms :
          /\ rooms = [r \in RoomIds |-> room]
          /\ live = MemberIds(room)
    /\ songs = [s \in Songs |-> 0]
    /\ messages = <<>>
    /\ activeConnections = [v \in Users |-> NoConnection]
    /\ socketRooms = [v \in Users |-> {}]
    /\ sockets = {}
    /\ tasks = [t \in 1..MaxTasks |-> Idle]
    /\ emitted = <<>>
    /\ arrivals = <<>>
    /\ applied = <<>>
    /\ now = 3
    /\ budget = MaxOps

NextJoin ==
    \/ \E user \in Users, roomId \in RoomIds :
          \E data \in JoinData : RestRequest(user, roomId, "join", data)
    \/ \E user \in Users, roomId \in RoomIds : RestRequest(user, roomId, "leave", NoData)
    \/ \E t \in 1..MaxTasks : RestLoad(t)
    \/ \E t \in 1..MaxTasks : RestSave(t)

SpecJoin == InitJoin /\ [][NextJoin]_vars

----------------------------------------------------------------------------
(* Specification of the sessions: connection, join-room, leave-room and    *)
(* disconnect on one room, open or closed by its host, of which h and m    *)
(* are members and u is not; h is in the room, m and u are connected        *)

SessionRoom(isActive) ==
    [exists |-> TRUE, isActive |-> isActive, hostId |-> "h", isPrivate |-> FALSE,
     passcode |-> Null, maxMembers |-> 50,
     members |-> << Member("h", "host", 1, TRUE), Member("m", "member", 2, FALSE) >>,
     queue |-> <<>>, currentTrack |-> NullTrack, settings |-> DefaultSettings(FALSE, FALSE)]

InitSession ==
    /\ \E isActive \in BOOLEAN : rooms = [r \in RoomIds |-> SessionRoom(isActive)]
    /\ live = {"h", "m"}
    /\ songs = [s \in Songs |-> 0]
    /\ messages = <<>>
    /\ sockets = Users
    /\ activeConnections =
          [v \in Users |-> IF v = "h" THEN Connection("r1") ELSE Connection(Null)]
    /\ socketRooms = [v \in Users |-> IF v = "h" THEN {"r1"} ELSE {}]
    /\ tasks = [t \in 1..MaxTasks |-> Idle]
    /\ emitted = <<>>
    /\ arrivals = <<>>
    /\ applied = <<>>
    /\ now = 3
    /\ budget = MaxOps

NextSession ==
    \/ \E user \in Users : Connect(user)
    \/ \E user \in Users, roomId \in RoomIds \cup {Null} : JoinRoomEvent(user, roomId)
    \/ \E t \in 1..MaxTasks : JoinRoomLoad(t)
    \/ \E t \in 1..MaxTasks : JoinRoomSave(t)
    \/ \E t \in 1..MaxTasks : JoinRoomEmit(t)
    \/ \E user \in Users, roomId \in RoomIds : LeaveRoomEvent(user, roomId)
    \/ \E t \in 1..MaxTasks : LeaveRoomLoad(t)
    \/ \E t \in 1..MaxTasks : LeaveRoomSave(t)
    \/ \E t \in 1..MaxTasks : LeaveRoomEnd(t)
    \/ \E user \in Users : Disconnect(user)
    \/ \E t \in 1..MaxTasks : DisconnectLoad(t)
    \/ \E t \in 1..MaxTasks : DisconnectSave(t)
    \/ \E t \in 1..MaxTasks : DisconnectEnd(t)

SpecSession == InitSession /\ [][NextSession]_vars

----------------------------------------------------------------------------
(* Specification of the sessions on two rooms: h and m are members of both, *)
(* in r1 and bound to it; in r2 their entries are offline                   *)

BothRoomIds == {"r1", "r2"}

TwoRoomsRoom(isOnline) ==
    [exists |-> TRUE, isActive |-> TRUE, hostId |-> "h", isPrivate |-> FALSE,
     passcode |-> Null, maxMembers |-> 50,
     members |-> << Member("h", "host", 1, isOnline), Member("m", "member", 2, isOnline) >>,
     queue |-> <<>>, currentTrack |-> NullTrack, settings |-> DefaultSettings(FALSE, FALSE)]

InitTwoRooms ==
    /\ rooms = [r \in BothRoomIds |-> TwoRoomsRoom(r = "r1")]
    /\ live = {"h", "m"}
    /\ songs = [s \in Songs |-> 0]
    /\ messages = <<>>
    /\ sockets = {"h", "m"}
    /\ activeConnections =
          [v \in Users |-> IF v \in {"h", "m"} THEN Connection("r1") ELSE NoConnection]
    /\ socketRooms = [v \in Users |-> IF v \in {"h", "m"} THEN {"r1"} ELSE {}]
    /\ tasks = [t \in 1..MaxTasks |-> Idle]
    /\ emitted = <<>>
    /\ arrivals = <<>>
    /\ applied = <<>>
    /\ now = 3
    /\ budget = MaxOps

NextTwoRooms ==
    \/ \E user \in {"h", "m"} : Connect(user)
    \/ \E user \in {"h", "m"}, roomId \in BothRoomIds : JoinRoomEvent(user, roomId)
    \/ \E t \in 1..MaxTasks : JoinRoomLoad(t)
    \/ \E t \in 1..MaxTasks : JoinRoomSave(t)
    \/ \E t \in 1..MaxTasks : JoinRoomEmit(t)
    \/ \E user \in {"h", "m"}, roomId \in BothRoomIds : LeaveRoomEvent(user, roomId)
    \/ \E t \in 1..MaxTasks : LeaveRoomLoad(t)
    \/ \E t \in 1..MaxTasks : LeaveRoomSave(t)
    \/ \E t \in 1..MaxTasks : LeaveRoomEnd(t)
    \/ \E user \in {"h", "m"} : Disconnect(user)
    \/ \E t \in 1..MaxTasks : DisconnectLoad(t)
    \/ \E t \in 1..MaxTasks : DisconnectSave(t)
    \/ \E t \in 1..MaxTasks : DisconnectEnd(t)

SpecTwoRooms == InitTwoRooms /\ [][NextTwoRooms]_vars

----------------------------------------------------------------------------
(* Specification of overlapping sessions: h and m, members of the room and *)
(* in it, disconnect, reconnect while the disconnect is being handled, and  *)
(* join the room again                                                      *)

InitReconnect ==
    /\ rooms = [r \in RoomIds |-> TwoRoomsRoom(TRUE)]
    /\ live = {"h", "m"}
    /\ songs = [s \in Songs |-> 0]
    /\ messages = <<>>
    /\ sockets = {"h", "m"}
    /\ activeConnections =
          [v \in Users |-> IF v \in {"h", "m"} THEN Connection("r1") ELSE NoConnection]
    /\ socketRooms = [v \in Users |-> IF v \in {"h", "m"} THEN {"r1"} ELSE {}]
    /\ tasks = [t \in 1..MaxTasks |-> Idle]
    /\ emitted = <<>>
    /\ arrivals = <<>>
    /\ applied = <<>>
    /\ now = 3
    /\ budget = MaxOps + 1

NextReconnect ==
    \/ \E user \in {"h", "m"} : Disconnect(user)
    \/ \E t \in 1..MaxTasks : DisconnectLoad(t)
    \/ \E t \in 1..MaxTasks : DisconnectSave(t)
    \/ \E t \in 1..MaxTasks : DisconnectEnd(t)
    \/ \E user \in {"h", "m"} : Connect(user)
    \/ \E user \in {"h", "m"} : Reconnect(user)
    \/ \E user \in {"h", "m"}, roomId \in RoomIds : JoinRoomEvent(user, roomId)
    \/ \E t \in 1..MaxTasks : JoinRoomLoad(t)
    \/ \E t \in 1..MaxTasks : JoinRoomSave(t)
    \/ \E t \in 1..MaxTasks : JoinRoomEmit(t)

SpecReconnect == InitReconnect /\ [][NextReconnect]_vars

----------------------------------------------------------------------------
(* Specification of the registry and the member list: pause events,        *)
(* join-room, and the join, leave, kick and role routes on one room.  The  *)
(* room has a host, a moderator and a member, all in the room, or the host *)
(* alone in it with the others connected                                   *)

RegistryRoom(members) ==
    [exists |-> TRUE, isActive |-> TRUE, hostId |-> "h", isPrivate |-> FALSE,
     passcode |-> Null, maxMembers |-> 50, members |-> members, queue |-> <<>>,
     currentTrack |-> NullTrack, settings |-> DefaultSettings(FALSE, FALSE)]

InitRegistryMembers ==
    { << Member("h", "host", 1, TRUE), Member("m", "moderator", 1, TRUE),
         Member("u", "member", 2, TRUE) >>,
      << Member("h", "host", 1, TRUE) >> }

InitRegistry ==
    /\ \E members \in InitRegistryMembers :
          LET room == RegistryRoom(members) IN
          /\ rooms = [r \in RoomIds |-> room]
          /\ live = MemberIds(room)
          /\ activeConnections =
                [v \in Users |-> IF v \in MemberIds(room) THEN Connection("r1")
                                 ELSE Connection(Null)]
          /\ socketRooms = [v \in Users |-> IF v \in MemberIds(room) THEN {"r1"} ELSE {}]
    /\ sockets = Users
    /\ songs = [s \in Songs |-> 0]
    /\ messages = <<>>
    /\ tasks = [t \in 1..MaxTasks |-> Idle]
    /\ emitted = <<>>
    /\ arrivals = <<>>
    /\ applied = <<>>
    /\ now = 3
    /\ budget = MaxOps

NextRegistry ==
    \/ \E user \in Users, roomId \in RoomIds :
          \E data \in EventData("pause") : MusicEvent(user, roomId, "pause", data)
    \/ \E t \in 1..MaxTasks : ControlLoad(t)
    \/ \E t \in 1..MaxTasks : ControlUpdate(t)
    \/ \E t \in 1..MaxTasks : ControlEmit(t)
    \/ \E user \in Users, roomId \in RoomIds : JoinRoomEvent(user, roomId)
    \/ \E t \in 1..MaxTasks : JoinRoomLoad(t)
    \/ \E t \in 1..MaxTasks : JoinRoomSave(t)
    \/ \E t \in 1..MaxTasks : JoinRoomEmit(t)
    \/ \E user \in Users, roomId \in RoomIds, action \in {"join", "leave"} :
          RestRequest(user, roomId, action, NoData)
    \/ \E user \in {"h", "m"}, roomId \in RoomIds :
          \E data \in RestData("kick") : RestRequest(user, roomId, "kick", data)
    \/ \E roomId \in RoomIds :
          \E data \in RestData("role") : RestRequest("h", roomId, "role", data)
    \/ \E t \in 1..MaxTasks : RestLoad(t)
    \/ \E t \in 1..MaxTasks : RestSave(t)

SpecRegistry == InitRegistry /\ [][NextRegistry]_vars

----------------------------------------------------------------------------
(* Specification of the chat entries the handlers save: the control events of *)
(* the host, the next of a plain member, and the join, leave and kick routes, *)
(* on a room with the host alone or with one more member                      *)

MessagesRoom(members, songIds) ==
    [exists |-> TRUE, isActive |-> TRUE, hostId |-> "h", isPrivate |-> FALSE,
     passcode |-> Null, maxMembers |-> 50, members |-> members,
     queue |-> QueueOf(songIds, Len(songIds)),
     currentTrack |-> NullTrack, settings |-> DefaultSettings(FALSE, FALSE)]

\* the members and the queued songs the room starts with
InitMessagesRooms ==
    { << << Member("h", "host", 1, TRUE) >>, <<"s1">> >>,
      << << Member("h", "host", 1, TRUE), Member("m", "member", 2, TRUE) >>, <<>> >> }

InitMessages ==
    /\ \E start \in InitMessagesRooms :
          LET room == MessagesRoom(start[1], start[2]) IN
          /\ rooms = [r \in RoomIds |-> room]
          /\ live = MemberIds(room)
          /\ activeConnections =
                [v \in Users |-> IF v \in MemberIds(room) THEN Connection("r1")
                                 ELSE Connection(Null)]
          /\ socketRooms = [v \in Users |-> IF v \in MemberIds(room) THEN {"r1"} ELSE {}]
    /\ sockets = Users
    /\ songs = [s \in Songs |-> 0]
    /\ messages = <<>>
    /\ tasks = [t \in 1..MaxTasks |-> Idle]
    /\ emitted = <<>>
    /\ arrivals = <<>>
    /\ applied = <<>>
    /\ now = 3
    /\ budget = MaxOps

NextMessages ==
    \/ \E roomId \in RoomIds, action \in Actions :
          \E data \in PlainData(action) : MusicEvent("h", roomId, action, data)
    \/ \E roomId \in RoomIds :
          \E data \in PlainData("next") : MusicEvent("m", roomId, "next", data)
    \/ \E t \in 1..MaxTasks : ControlLoad(t)
    \/ \E t \in 1..MaxTasks : ControlIncrementPlayCount(t)
    \/ \E t \in 1..MaxTasks : ControlSave(t)
    \/ \E t \in 1..MaxTasks : ControlMessage(t)
    \/ \E t \in 1..MaxTasks : ControlUpdate(t)
    \/ \E t \in 1..MaxTasks : ControlEmit(t)
    \/ \E user \in {"h", "m"}, roomId \in RoomIds, action \in {"join", "leave"} :
          RestRequest(user, roomId, action, NoData)
    \/ \E roomId \in RoomIds :
          RestRequest("h", roomId, "kick", [NoData EXCEPT !.userId = "m"])
    \/ \E t \in 1..MaxTasks : RestLoad(t)
    \/ \E t \in 1..MaxTasks : RestSave(t)

SpecMessages == InitMessages /\ [][NextMessages]_vars

----------------------------------------------------------------------------
(* Properties *)

AllIdle == \A t \in 1..MaxTasks : IsIdle(t)

\* position in the emission order of the music-update of control event id, 0 if none
UpdatePos(id) ==
    IF \E i \in DOMAIN emitted : emitted[i].ev = "music-update" /\ emitted[i].id = id
    THEN CHOOSE i \in DOMAIN emitted : emitted[i].ev = "music-update" /\ emitted[i].id = id
    ELSE 0

\* task t takes the step that follows its Room.findById
Loads(t) == tasks[t].pc = "findRoom" /\ tasks'[t] # tasks[t]

\* task t takes the step in which its findByIdAndUpdate is applied
Updates(t) == tasks[t].pc = "update" /\ tasks'[t].pc = "emit"

AuthMessage == "Only host and moderators can control music"

\* C1: the host sends music-play(s1, 0) and then music-pause(5); once both handlers have
\* ended the stored track is paused at currentTime 5, and the play update was emitted
\* before the pause update.
C1_PlayThenPause ==
    (/\ Len(arrivals) = 2
     /\ arrivals[1].user = "h" /\ arrivals[1].action = "play"
     /\ arrivals[1].data.songId = "s1" /\ arrivals[1].data.currentTime = 0
     /\ arrivals[2].user = "h" /\ arrivals[2].action = "pause"
     /\ arrivals[2].data.currentTime = 5
     /\ AllIdle)
    => /\ rooms["r1"].currentTrack.isPlaying = FALSE
       /\ rooms["r1"].currentTrack.currentTime = 5
       /\ UpdatePos(1) # 0
       /\ UpdatePos(2) # 0
       /\ UpdatePos(1) < UpdatePos(2)

\* a control event that no check of the specification rejects
Accepted(id) ==
    arrivals[id].action = "volume"
    => (arrivals[id].data.volume >= 0 /\ arrivals[id].data.volume <= 100)

\* C2: for two accepted control events on one room, the music-update of the one whose
\* update was applied to the stored room first is emitted first.
C2_BroadcastOrder ==
    \A i, j \in DOMAIN applied :
        (/\ i < j
         /\ Accepted(applied[i]) /\ Accepted(applied[j])
         /\ arrivals[applied[i]].roomId = arrivals[applied[j]].roomId
         /\ UpdatePos(applied[i]) # 0 /\ UpdatePos(applied[j]) # 0)
        => UpdatePos(applied[i]) < UpdatePos(applied[j])

\* C3: the member list of a room holds exactly the identities whose join has completed
\* and has not been followed by a completed leave.
C3_MembersAreLive ==
    (\A n \in DOMAIN arrivals : arrivals[n].action \in {"create", "join", "leave"})
    => \A r \in RoomIds : MemberIds(rooms[r]) = live

\* C4: an active room has exactly one member with role host; that member is the one
\* the room's hostId names.
C4_OneHost ==
    \A r \in RoomIds :
        (rooms[r].exists /\ rooms[r].isActive)
        => LET hosts == {i \in DOMAIN rooms[r].members : rooms[r].members[i].role = "host"}
           IN  /\ Cardinality(hosts) = 1
               /\ \A i \in hosts : rooms[r].members[i].userId = rooms[r].hostId

\* the host left a room with another member in it and the room is still active
C4_Witness ==
    /\ Len(arrivals) >= 1
    /\ arrivals[1].action = "leave" /\ arrivals[1].user = "h"
    /\ rooms["r1"].isActive
    /\ rooms["r1"].hostId = "m"
    /\ AllIdle

UniqueMembers ==
    \A r \in RoomIds : \A i, j \in DOMAIN rooms[r].members :
        rooms[r].members[i].userId = rooms[r].members[j].userId => i = j

\* the join route loads a room its caller is already a member of: the document it
\* will save is the loaded one with that member's isOnline set
JoinIsIdempotent ==
    \A t \in 1..MaxTasks :
        LET k == tasks[t]
            room == rooms[k.roomId]
            i == FindMember(room, k.user)
        IN  (k.pc = "loadRoom" /\ tasks'[t] # k /\ k.action = "join"
             /\ room.exists /\ room.isActive /\ i # 0)
            => /\ tasks'[t].pc = "saveRoom"
               /\ Len(tasks'[t].room.members) = Len(room.members)
               /\ tasks'[t].room.members[i].role = room.members[i].role
               /\ tasks'[t].room.members[i].joinedAt = room.members[i].joinedAt
               /\ tasks'[t].room = [room EXCEPT !.members[i].isOnline = TRUE]
               /\ tasks'[t].message = NoMessage

Permitted(role, action, allowMembersToSkip) ==
    CASE action \in {"play", "pause", "seek"} -> role \in {"host", "moderator"}
      [] action = "next" ->
           role \in {"host", "moderator"} \/ (role = "member" /\ allowMembersToSkip)
      [] action = "volume" -> TRUE

ControlIsAuthorized ==
    \A t \in 1..MaxTasks :
        LET k == tasks[t]
            room == rooms[k.roomId]
            i == FindMember(room, k.user)
            permitted == Permitted(room.members[i].role, k.action,
                                   room.settings.allowMembersToSkip)
            refused == /\ tasks'[t] = Idle
                       /\ emitted' = Append(emitted, ErrorEvent(k.id, k.user, AuthMessage))
        IN  Loads(t)
            => IF room.exists /\ room.isActive /\ i # 0
               THEN /\ tasks'[t].pc # "idle" => permitted
                    /\ permitted <=> ~refused
               ELSE tasks'[t] = Idle

MemberNextIsRejected ==
    \A t \in 1..MaxTasks :
        LET k == tasks[t]
            room == rooms[k.roomId]
            i == FindMember(room, k.user)
        IN  (Loads(t) /\ k.action = "next" /\ room.exists /\ room.isActive /\ i # 0
             /\ room.members[i].role = "member" /\ ~room.settings.allowMembersToSkip)
            => /\ rooms' = rooms
               /\ songs' = songs
               /\ messages' = messages
               /\ applied' = applied
               /\ tasks'[t] = Idle
               /\ emitted' = Append(emitted,
                     [ev |-> "error", id |-> k.id, from |-> k.user, to |-> {k.user},
                      data |-> [message |-> AuthMessage]])

\* an event refused by the permission check causes no other emission
RefusedEmitsOnlyError ==
    \A i, j \in DOMAIN emitted :
        (emitted[i].ev = "error" /\ emitted[i].data.message = AuthMessage
         /\ emitted[j].id = emitted[i].id)
        => j = i

\* C7: next from a plain member while allowMembersToSkip is off changes neither the room
\* nor the play counters nor the chat, and emits one error, to the sender only.
C7_MemberNextRejected == [][MemberNextIsRejected]_vars /\ []RefusedEmitsOnlyError

\* a plain member's next was refused
C7_Witness ==
    \E i \in DOMAIN emitted :
        /\ emitted[i].ev = "error"
        /\ emitted[i].from = "u"
        /\ emitted[i].data.message = AuthMessage
        /\ arrivals[emitted[i].id].action = "next"

\* C8: a volume event with a volume below 0 or above 100 is answered with an error to the
\* sender and with neither music-update nor music-control-success, and leaves
\* settings.volume as it was.
C8_VolumeOutOfRangeRejected ==
    \A n \in DOMAIN arrivals :
        (arrivals[n].action = "volume"
         /\ (arrivals[n].data.volume < 0 \/ arrivals[n].data.volume > 100))
        => /\ \A i \in DOMAIN emitted : emitted[i].id = n => emitted[i].ev = "error"
           /\ rooms[arrivals[n].roomId].settings.volume # arrivals[n].data.volume

VolumeWithinRange ==
    \A r \in RoomIds : rooms[r].settings.volume >= 0 /\ rooms[r].settings.volume <= 100

VolumeIsStored ==
    \A t \in 1..MaxTasks :
        LET k == tasks[t] IN
        (Updates(t) /\ k.action = "volume"
         /\ k.data.volume >= 0 /\ k.data.volume <= 100)
        => /\ rooms'[k.roomId].settings.volume = k.data.volume
           /\ rooms'[k.roomId].currentTrack = rooms[k.roomId].currentTrack
           /\ rooms'[k.roomId].queue = rooms[k.roomId].queue

\* C9: settings.volume is always within 0..100, and a volume event within that range
\* stores its value and leaves currentTrack and the queue alone.
C9_VolumeRange == []VolumeWithinRange /\ [][VolumeIsStored]_vars

\* a plain member's volume(0) was stored
C9_Witness ==
    /\ rooms["r1"].settings.volume = 0
    /\ \E n \in DOMAIN applied :
          arrivals[applied[n]].action = "volume" /\ arrivals[applied[n]].user = "u"

NextOnEmptyQueueStops ==
    \A t \in 1..MaxTasks :
        LET k == tasks[t] IN
        (Updates(t) /\ k.action = "next" /\ k.song = Null)
        => /\ rooms'[k.roomId].currentTrack = NullTrack
           /\ k.broadcastData.action = "stop"
           /\ "currentTrack" \notin DOMAIN k.broadcastData

\* C10: next on an empty queue leaves currentTrack in its null form (songId null,
\* startedAt null, currentTime 0, isPlaying false, playedBy null) and broadcasts
\* action "stop" without a track.
C10_NextOnEmptyQueue == [][NextOnEmptyQueueStops]_vars

\* the handler of a play with a songId removes the song from its copy of the queue
\* and keeps every other item, saves that queue, and sets the song as current track
PlayRemovesFromQueue ==
    \A t \in 1..MaxTasks :
        LET k == tasks[t]
            others == SelectSeq(k.room.queue, LAMBDA item : item.songId # k.song)
        IN  /\ (k.pc = "incrementPlayCount" /\ k.action = "play" /\ tasks'[t] # k)
               => /\ tasks'[t].room.queue = others
                  /\ k.song \notin QueueIds(tasks'[t].room.queue)
            /\ (k.pc = "save" /\ k.action = "play" /\ tasks'[t] # k)
               => /\ rooms'[k.roomId].queue = k.room.queue
                  /\ k.song \notin QueueIds(rooms'[k.roomId].queue)
            /\ (Updates(t) /\ k.action = "play" /\ k.data.songId # Null)
               => /\ rooms'[k.roomId].currentTrack.songId = k.data.songId
                  /\ rooms'[k.roomId].currentTrack.isPlaying
                  /\ rooms'[k.roomId].currentTrack.playedBy = k.user

NextTakesFromQueue ==
    \A t \in 1..MaxTasks :
        LET k == tasks[t]
            queue == rooms[k.roomId].queue
            chosen == tasks'[t].song
        IN  /\ (Loads(t) /\ k.action = "next" /\ tasks'[t].pc # "idle" /\ Len(queue) > 0)
               => /\ \E i \in DOMAIN queue :
                        /\ queue[i].songId = chosen
                        /\ ~rooms[k.roomId].settings.shuffleMode
                           => \A j \in DOMAIN queue : queue[i].order <= queue[j].order
                        /\ Range(tasks'[t].room.queue) = Range(queue) \ {queue[i]}
                  /\ Len(tasks'[t].room.queue) = Len(queue) - 1
            /\ (k.pc = "save" /\ k.action = "next" /\ tasks'[t] # k)
               => rooms'[k.roomId].queue = k.room.queue
            /\ (Updates(t) /\ k.action = "next" /\ k.song # Null)
               => /\ rooms'[k.roomId].currentTrack.songId = k.song
                  /\ rooms'[k.roomId].currentTrack.currentTime = 0
                  /\ rooms'[k.roomId].currentTrack.isPlaying
                  /\ rooms'[k.roomId].currentTrack.playedBy = k.user

\* C12: next on a non-empty queue takes the item with the smallest order (any item under
\* shuffleMode), removes exactly that item and keeps the others, and sets it as current
\* track with currentTime 0, isPlaying true and playedBy the invoker.
C12_NextTakesFromQueue == [][NextTakesFromQueue]_vars

\* a next under shuffleMode took s2 and left s1 queued
C12_Witness ==
    /\ \E i \in DOMAIN emitted :
          /\ emitted[i].ev = "music-control-success"
          /\ arrivals[emitted[i].id].action = "next"
    /\ rooms["r1"].currentTrack.songId = "s2"
    /\ rooms["r1"].queue = << [songId |-> "s1", addedBy |-> "h", order |-> 1] >>

\* the queue without its q-th item
WithoutItem(queue, q) ==
    [n \in 1..(Len(queue) - 1) |-> IF n < q THEN queue[n] ELSE queue[n + 1]]

\* True when n is the largest order value of the queue
IsHighestOrder(queue, n) ==
    /\ \E q \in 1..Len(queue) : queue[q].order = n
    /\ \A q \in 1..Len(queue) : queue[q].order <= n

\* a request the queue route t accepts and hands to room.save()
QueueRouteAccepts(t, action) ==
    /\ tasks[t].pc = "loadQueue"
    /\ tasks[t].action = action
    /\ tasks'[t].pc = "saveQueue"

QueueAddAppends ==
    \A t \in 1..MaxTasks :
       LET k == tasks[t]
           queue == rooms[k.roomId].queue
           added == tasks'[t].room.queue
       IN
       QueueRouteAccepts(t, "queueAdd") =>
          /\ Len(added) = Len(queue) + 1
          /\ SubSeq(added, 1, Len(queue)) = queue
          /\ added[Len(added)].songId = k.data.songId
          /\ added[Len(added)].addedBy = k.user
          /\ IF queue = <<>> THEN added[Len(added)].order = 1
             ELSE IsHighestOrder(queue, added[Len(added)].order - 1)

QueueRemoveKeepsOrder ==
    \A t \in 1..MaxTasks :
       LET k == tasks[t]
           queue == rooms[k.roomId].queue
       IN
       QueueRouteAccepts(t, "queueRemove") =>
          \E q \in 1..Len(queue) :
             /\ queue[q].songId = k.data.songId
             /\ tasks'[t].room.queue = WithoutItem(queue, q)

QueueRouteSaves ==
    \A t \in 1..MaxTasks :
       LET k == tasks[t] IN
       (k.pc = "saveQueue" /\ k.action \in {"queueAdd", "queueRemove"} /\ IsIdle(t)')
          => rooms'[k.roomId].queue = k.room.queue

\* C13: addToQueue appends the song at the end of the queue with order 1 on an empty
\* queue and the largest order plus one otherwise; removeFromQueue takes the song's
\* item out and leaves the order values and the relative order of the others alone
C13_QueueAddAndRemove ==
    [][QueueAddAppends /\ QueueRemoveKeepsOrder /\ QueueRouteSaves]_vars

\* a song was added behind an item of order 2 and the request answered
C13_Witness ==
    /\ \E e \in Range(emitted) : e.ev = "response" /\ e.data.text = "Song added to queue"
    /\ rooms["r1"].queue = <<QueueItem("s2", "m", 2), QueueItem("s1", "h", 3)>>

\* True when the n-th member is the one a leaving host hands the room to: not the
\* leaver, no other member joined earlier, none of the same time stands before it
IsSuccessor(members, user, n) ==
    /\ members[n].userId # user
    /\ \A o \in 1..Len(members) :
          (members[o].userId # user /\ o # n) =>
             \/ members[n].joinedAt < members[o].joinedAt
             \/ members[n].joinedAt = members[o].joinedAt /\ n < o

\* the host's leave request t passes the middleware while others are members
HostLeaves(t) ==
    /\ tasks[t].pc = "loadRoom"
    /\ tasks[t].action = "leave"
    /\ tasks'[t].pc = "saveRoom"
    /\ rooms[tasks[t].roomId].hostId = tasks[t].user
    /\ MemberIds(rooms[tasks[t].roomId]) # {tasks[t].user}

HostLeaveTransfers ==
    \A t \in 1..MaxTasks :
       LET k == tasks[t]
           members == rooms[k.roomId].members
           doc == tasks'[t].room
       IN
       HostLeaves(t) =>
          /\ doc.isActive
          /\ \E n \in 1..Len(members) :
                /\ IsSuccessor(members, k.user, n)
                /\ doc.hostId = members[n].userId
                /\ \A o \in 1..Len(doc.members) :
                      doc.members[o].role = "host" <=> doc.members[o].userId = doc.hostId
          /\ k.user \notin MemberIds(doc)
          /\ MemberIds(doc) = MemberIds(rooms[k.roomId]) \ {k.user}
          /\ Len(doc.members) = Len(members) - 1

HostLeaveSaves ==
    \A t \in 1..MaxTasks :
       LET k == tasks[t] IN
       (k.pc = "saveRoom" /\ k.action = "leave" /\ k.room.isActive /\ IsIdle(t)') =>
          /\ rooms'[k.roomId] = k.room
          /\ Len(messages') = Len(messages) + 1
          /\ messages'[Len(messages')].messageType = "user_leave"
          /\ messages'[Len(messages')].senderId = k.user

C14_WitnessTie ==
    /\ rooms["r1"].members = << Member("u", "host", 2, TRUE), Member("m", "member", 2, TRUE) >>
    /\ rooms["r1"].hostId = "u"

\* the error a join with this passcode, as the route receives it, has to get from
\* the room: status and text, <<>> when the join is to go through
JoinError(room, passcode) ==
    IF ~room.exists \/ ~room.isActive THEN <<404, "Room not found">>
    ELSE IF Cardinality(MemberIds(room)) >= room.maxMembers THEN <<400, "Room is full">>
    ELSE IF room.isPrivate /\ (passcode \in {Null, ""} \/ room.passcode # passcode)
      THEN <<400, "Invalid passcode">>
    ELSE <<>>

FailedJoinChangesNothing ==
    \A t \in 1..MaxTasks :
       LET k == tasks[t]
           room == rooms[k.roomId]
           error == JoinError(room, Trim(k.data.passcode))
       IN
       (/\ k.pc = "loadRoom"
        /\ k.action = "join"
        /\ k.user \notin MemberIds(room)
        /\ tasks'[t] # k
        /\ error # <<>>) =>
          /\ IsIdle(t)'
          /\ emitted' = Append(emitted, Response(k.id, k.user, error[1], error[2]))
          /\ rooms' = rooms
          /\ messages' = messages

\* C17: a join by a non-member is answered Room not found when the room is inactive,
\* Room is full when it has maxMembers members or more, Invalid passcode when it
\* is private and the passcode is missing or differs; the request then ends with the
\* room and the system messages as they were
C17_FailedJoin == [][FailedJoinChangesNothing]_vars

\* u was refused for the passcode; the room still has h and m only
C17_Witness ==
    /\ \E e \in Range(emitted) :
          e.ev = "response" /\ e.to = {"u"} /\ e.data.text = "Invalid passcode"
    /\ MemberIds(rooms["r1"]) = {"h", "m"}
    /\ messages = <<>>
    /\ AllIdle

\* the sessions a broadcast to roomId reaches when user sends it
Joined(user, roomId) == {v \in sockets \ {user} : roomId \in socketRooms[v]}

\* handler t takes the step that follows the await at pc
Steps(t, pc) == tasks[t].pc = pc /\ tasks'[t] # tasks[t]

\* a join-room without roomId, for a room that is closed or by a non-member is answered
\* with an error and ends there, with registry, socket.io rooms and store as they were
JoinRoomRefused ==
    /\ \A t \in 1..MaxTasks :
          LET k == tasks[t]
              room == rooms[k.roomId]
          IN
          (Steps(t, "joinFind")
           /\ ~(room.exists /\ room.isActive /\ k.user \in MemberIds(room))) =>
             /\ IsIdle(t)'
             /\ Len(emitted') = Len(emitted) + 1
             /\ emitted'[Len(emitted')].ev = "error"
             /\ emitted'[Len(emitted')].to = {k.user}
             /\ UNCHANGED <<rooms, activeConnections, socketRooms>>
    /\ (/\ arrivals' # arrivals
        /\ arrivals'[Len(arrivals')].action = "join-room"
        /\ arrivals'[Len(arrivals')].roomId = Null) =>
          /\ emitted' = Append(emitted,
                ErrorEvent(Len(arrivals'), arrivals'[Len(arrivals')].user,
                           "Room ID is required"))
          /\ UNCHANGED <<rooms, activeConnections, socketRooms, tasks>>

\* a join-room of a registered member of an open room binds the identity, stores
\* its entry as online and sends room-joined to it and user-joined to the others
JoinRoomHonoured ==
    \A t \in 1..MaxTasks :
       LET k == tasks[t]
           room == rooms[k.roomId]
       IN
       /\ (Steps(t, "joinFind") /\ room.exists /\ room.isActive
           /\ k.user \in MemberIds(room) /\ activeConnections[k.user].connected) =>
             /\ activeConnections'[k.user] = Connection(k.roomId)
             /\ k.roomId \in socketRooms'[k.user]
             /\ tasks'[t].pc = "joinSave"
             /\ emitted' = emitted
       /\ Steps(t, "joinSave") =>
             /\ \E i \in 1..Len(k.room.members) :
                   k.room.members[i].userId = k.user /\ k.room.members[i].isOnline
             /\ rooms' = [rooms EXCEPT ![k.roomId] = k.room]
             /\ emitted' = emitted
       /\ Steps(t, "joinEmit") =>
             /\ Len(emitted') = Len(emitted) + 2
             /\ emitted'[Len(emitted) + 1].ev = "room-joined"
             /\ emitted'[Len(emitted) + 1].to = {k.user}
             /\ emitted'[Len(emitted) + 2].ev = "user-joined"
             /\ emitted'[Len(emitted) + 2].to = Joined(k.user, k.roomId)

DisconnectReleases ==
    \A t \in 1..MaxTasks :
       LET k == tasks[t]
           members == rooms[k.roomId].members
           doc == tasks'[t].room
       IN
       /\ (Steps(t, "disconnectFind") /\ rooms[k.roomId].exists) =>
             /\ Len(doc.members) = Len(members)
             /\ \A i \in 1..Len(members) :
                   doc.members[i] =
                      IF members[i].userId = k.user
                      THEN Member(k.user, members[i].role, members[i].joinedAt, FALSE)
                      ELSE members[i]
             /\ emitted' = emitted
             /\ activeConnections[k.user].connected
       /\ Steps(t, "disconnectSave") =>
             /\ rooms' = [rooms EXCEPT ![k.roomId] = k.room]
             /\ Len(emitted') = Len(emitted) + 1
             /\ emitted'[Len(emitted')].ev = "user-left"
             /\ emitted'[Len(emitted')].from = k.user
             /\ emitted'[Len(emitted')].to = Joined(k.user, activeConnections[k.user].currentRoom)
       /\ Steps(t, "disconnectEnd") =>
             /\ activeConnections'[k.user] = NoConnection
             /\ IsIdle(t)'
             /\ emitted' = emitted
             /\ rooms' = rooms

\* C20: when the disconnect handling of a session bound to a room has completed the
\* identity has no registry entry, its member entry is kept with isOnline false, and
\* the other sessions in the room were sent one user-left
C20_Disconnect == [][DisconnectReleases]_vars

\* m joined the room and disconnected: no entry, offline member, h was told
C20_Witness ==
    /\ AllIdle
    /\ activeConnections["m"] = NoConnection
    /\ rooms["r1"].members[2] = Member("m", "member", 2, FALSE)
    /\ \E e \in Range(emitted) : e.ev = "user-joined" /\ e.from = "m"
    /\ \E e \in Range(emitted) : e.ev = "user-left" /\ e.from = "m" /\ e.to = {"h"}

\* the leave of a host who is the only member hands room.save() the room switched
\* off, and the save stores it without a leave message
LoneHostLeaveDeactivates ==
    \A t \in 1..MaxTasks :
       LET k == tasks[t]
           room == rooms[k.roomId]
       IN
       /\ (Steps(t, "loadRoom") /\ k.action = "leave" /\ room.exists /\ room.isActive
           /\ room.hostId = k.user /\ MemberIds(room) = {k.user}) =>
             /\ tasks'[t].pc = "saveRoom"
             /\ tasks'[t].room.exists
             /\ ~tasks'[t].room.isActive
       /\ (Steps(t, "saveRoom") /\ k.action = "leave" /\ ~k.room.isActive) =>
             /\ rooms' = [rooms EXCEPT ![k.roomId] = k.room]
             /\ messages' = messages
             /\ emitted' = Append(emitted, Response(k.id, k.user, 200, "Left room successfully"))

\* True when the step of handler t ends it with this answer and nothing else
Answers(t, answer) ==
    /\ IsIdle(t)'
    /\ emitted' = Append(emitted, answer)
    /\ UNCHANGED <<rooms, messages, activeConnections, socketRooms>>

\* a join, a join-room or a control event that finds the room switched off is
\* answered Room not found and changes nothing; a control event gets that far when
\* its sender is bound to the room, and is answered You must be in the room otherwise
InactiveRoomRejects ==
    /\ \A t \in 1..MaxTasks :
          LET k == tasks[t] IN
          (tasks'[t] # k /\ k.pc \in {"loadRoom", "joinFind", "findRoom"}
           /\ (k.pc = "loadRoom" => k.action = "join")
           /\ rooms[k.roomId].exists /\ ~rooms[k.roomId].isActive) =>
             Answers(t, IF k.pc = "loadRoom"
                        THEN Response(k.id, k.user, 404, "Room not found")
                        ELSE ErrorEvent(k.id, k.user, "Room not found"))
    /\ (/\ arrivals' # arrivals
        /\ arrivals'[Len(arrivals')].action = "pause"
        /\ tasks' = tasks) =>
          LET e == arrivals'[Len(arrivals')] IN
          /\ activeConnections[e.user].currentRoom # e.roomId
          /\ emitted' = Append(emitted, ErrorEvent(e.id, e.user, "You must be in the room"))
          /\ UNCHANGED <<rooms, messages, activeConnections, socketRooms>>

\* no step deletes a room
RoomIsKept == \A r \in RoomIds : rooms[r].exists => rooms'[r].exists

Removed(e) ==
    IF e.ev = "response" /\ e.data.text = "Left room successfully" THEN e.from
    ELSE IF e.ev = "response" /\ e.data.text = "Member kicked successfully"
      THEN arrivals[e.id].data.userId
    ELSE Null

\* C16: once a leave or a kick has completed, the identity it removed is not bound
\* to the room in the registry and is sent no later music-update, user-joined or
\* user-left of the room
C16_LeaveUnbinds ==
    \A n \in 1..Len(emitted) :
       LET v == Removed(emitted[n]) IN
       v # Null =>
          /\ activeConnections[v].currentRoom # arrivals[emitted[n].id].roomId
          /\ \A later \in (n + 1)..Len(emitted) :
                emitted[later].ev \in {"music-update", "user-joined", "user-left"}
                   => v \notin emitted[later].to

\* a control event goes past the await of Room.findById only for a sender that the
\* store read at that moment lists as member with a role that may pause, and its
\* handler was started only for a sender bound to the room
ControlChecksRegistryAndStore ==
    /\ \A t \in 1..MaxTasks :
          LET k == tasks[t]
              members == rooms[k.roomId].members
          IN
          (Steps(t, "findRoom") /\ ~IsIdle(t)') =>
             /\ rooms[k.roomId].isActive
             /\ \E i \in 1..Len(members) :
                   members[i].userId = k.user /\ members[i].role \in {"host", "moderator"}
    /\ \A t \in 1..MaxTasks :
          (IsIdle(t) /\ tasks'[t].pc = "findRoom") =>
             activeConnections[tasks'[t].user] = Connection(tasks'[t].roomId)
    /\ \A t \in 1..MaxTasks :
          LET k == tasks[t]
              members == rooms[k.roomId].members
          IN
          (Steps(t, "findRoom") /\ IsIdle(t)' /\ rooms[k.roomId].isActive) =>
             \A i \in 1..Len(members) :
                members[i].userId = k.user => members[i].role = "member"

\* C18: a control event is accepted only if its sender is bound to the room in the
\* registry when the handler starts and is in the member list the handler reads from
\* the store, with the role stored at that moment: a role change or removal saved
\* before the read decides
C18_RegistryAndStoredRole == [][ControlChecksRegistryAndStore]_vars

\* m, moderator when its pause arrived, was made a member before the handler read the
\* room: the pause was refused
C18_Witness ==
    /\ Len(arrivals) = 2
    /\ arrivals[1].action = "pause" /\ arrivals[1].user = "m"
    /\ arrivals[2].action = "role" /\ arrivals[2].data.userId = "m"
    /\ \E e \in Range(emitted) :
          e = ErrorEvent(1, "m", "Only host and moderators can control music")
    /\ \E e \in Range(emitted) :
          e = Response(2, "h", 200, "Member role updated successfully")

\* the pcs of handleMusicControl before its two emits
ControlPcs == {"findRoom", "incrementPlayCount", "save", "message", "update"}

\* the step after findByIdAndUpdate sends one music-update to the sessions joined to the
\* room other than the sender, then one music-control-success to the sender with the
\* fields of the update and an action; no earlier step of the handler sends either
DeliversOnce ==
    \A t \in 1..MaxTasks :
       LET k == tasks[t]
           n == Len(emitted)
       IN
       /\ Steps(t, "emit") =>
             /\ Len(emitted') = n + 2
             /\ SubSeq(emitted', 1, n) = emitted
             /\ \A i \in 1..n : emitted[i].id # k.id
             /\ LET update == emitted'[n + 1]
                    success == emitted'[n + 2]
                IN
                /\ update.ev = "music-update" /\ update.id = k.id
                /\ update.to = Joined(k.user, k.roomId)
                /\ k.user \notin update.to
                /\ success.ev = "music-control-success" /\ success.id = k.id
                /\ success.to = {k.user}
                /\ DOMAIN success.data = DOMAIN update.data \cup {"action"}
                /\ \A f \in DOMAIN update.data : success.data[f] = update.data[f]
                /\ ("action" \notin DOMAIN update.data) => success.data.action = k.action
                /\ Accepted(k.id) =>
                      /\ "action" \in DOMAIN update.data
                      /\ update.data.action =
                            IF k.action = "next" /\ k.song = Null THEN "stop" ELSE k.action
             /\ IsIdle(t)'
       /\ (k.pc \in ControlPcs /\ tasks'[t] # k) =>
             \/ emitted' = emitted
             \/ /\ Len(emitted') = n + 1
                /\ emitted'[n + 1].ev = "error"
                /\ emitted'[n + 1].to = {k.user}
                /\ IsIdle(t)'

\* C21: for every accepted control event each other session joined to the room gets
\* exactly one music-update, the sender gets exactly one music-control-success with the
\* same action and payload fields, and the sender gets no music-update of its own event
C21_UpdateAndSuccess == [][DeliversOnce]_vars

\* h played s1 in the room m has joined and u has not: the update went to m alone and
\* the success with the same fields to h
C21_Witness ==
    /\ Len(emitted) = 2
    /\ arrivals[1].user = "h" /\ arrivals[1].action = "play" /\ arrivals[1].data.songId = "s1"
    /\ emitted[1].ev = "music-update" /\ emitted[1].to = {"m"}
    /\ emitted[2].ev = "music-control-success" /\ emitted[2].to = {"h"}
    /\ emitted[2].data = emitted[1].data
    /\ socketRooms["u"] = {}

\* the message types the Message model counts as system messages
SystemTypes == {"system", "song_add", "song_play", "user_join", "user_leave"}

\* number of chat entries saved by the handler of event id
Entries(msgs, id) == Cardinality({i \in DOMAIN msgs : msgs[i].id = id})

\* handler t returns in this step
Ends(t) == ~IsIdle(t) /\ IsIdle(t)'

\* the handler that returns is a control event that started a track: a play with a
\* songId or a next that took a song from the queue
TrackChange(k) ==
    /\ k.pc = "emit"
    /\ \/ k.action = "play" /\ k.data.songId # Null
       \/ k.action = "next" /\ k.song # Null

\* the handler returns with a 200 answer of this text
AnswersOk(text) ==
    LET e == emitted'[Len(emitted')] IN
    /\ Len(emitted') = Len(emitted) + 1
    /\ e.ev = "response" /\ e.data.status = 200 /\ e.data.text = text

\* the handler that returns added or removed a member entry
MembershipChange ==
    \/ AnswersOk("Joined room successfully")
    \/ AnswersOk("Left room successfully")
    \/ AnswersOk("Member kicked successfully")

\* a handler that returns has saved one entry if it changed the membership or the
\* track and none otherwise
EntryPerChange_everyLeave ==
    \A t \in 1..MaxTasks :
       Ends(t) =>
          Entries(messages', tasks[t].id) =
             IF TrackChange(tasks[t]) \/ MembershipChange THEN 1 ELSE 0

\* the same, a leave that switched the room off saving none
EntryPerChange ==
    \A t \in 1..MaxTasks :
       LET k == tasks[t]
           lastLeave == AnswersOk("Left room successfully") /\ ~rooms'[k.roomId].isActive
       IN
       Ends(t) =>
          Entries(messages', k.id) =
             IF TrackChange(k) \/ (MembershipChange /\ ~lastLeave) THEN 1 ELSE 0

\* entries are only appended, one per step, by a running handler, system-tagged, and an
\* event refused on arrival saves none
EntriesAreSystem ==
    \/ messages' = messages
    \/ /\ Len(messages') = Len(messages) + 1
       /\ SubSeq(messages', 1, Len(messages)) = messages
       /\ messages'[Len(messages')].messageType \in SystemTypes
       /\ \E t \in 1..MaxTasks :
             ~IsIdle(t) /\ tasks[t].id = messages'[Len(messages')].id

\* a next that is not refused takes a song exactly when the queue it read is not empty
NextTakesSong ==
    \A t \in 1..MaxTasks :
       (Steps(t, "findRoom") /\ tasks[t].action = "next" /\ ~IsIdle(t)') =>
          (tasks'[t].song # Null <=> Len(rooms[tasks[t].roomId].queue) > 0)

C22_WitnessLastLeave ==
    /\ AllIdle
    /\ Len(arrivals) = 2
    /\ arrivals[1].action = "next" /\ arrivals[2].action = "leave"
    /\ emitted[Len(emitted)] = Response(2, "h", 200, "Left room successfully")
    /\ ~rooms["r1"].isActive
    /\ Len(messages) = 1 /\ messages[1].id = 1

\* C23: in every stored room, currentTrack.songId is null if and only if
\* currentTrack.isPlaying is false
C23_NullIffNotPlaying ==
    \A r \in RoomIds :
       rooms[r].exists =>
          (rooms[r].currentTrack.songId = Null <=> ~rooms[r].currentTrack.isPlaying)

\* the update of a play leaves the stored track playing a song; without a songId it
\* changes nothing of the stored room but isPlaying, startedAt and currentTime
PlayResultsInPlaying ==
    \A t \in 1..MaxTasks :
       LET k == tasks[t]
           old == rooms[k.roomId]
           new == rooms'[k.roomId]
       IN
       (Updates(t) /\ k.action = "play") =>
          /\ new.currentTrack.isPlaying
          /\ new.currentTrack.songId # Null
          /\ k.data.songId = Null =>
                new = [old EXCEPT !.currentTrack.isPlaying = TRUE,
                                  !.currentTrack.startedAt = new.currentTrack.startedAt,
                                  !.currentTrack.currentTime = new.currentTrack.currentTime]

\* the music-control-success of event id
SuccessOf(id) ==
    CHOOSE e \in Range(emitted) : e.ev = "music-control-success" /\ e.id = id

\* the fields the handler of a completed event id gave to findByIdAndUpdate, read off
\* the event as it arrived and the action and track its acknowledgment carries
Written(id) ==
    LET e == arrivals[id]
        ack == SuccessOf(id).data
    IN
    CASE e.action = "play" /\ e.data.songId # Null ->
           TrackUpdate(e.data.songId, e.data.currentTime, e.user, ack.timestamp)
      [] e.action = "play" /\ e.data.songId = Null ->
           ResumeUpdate(e.data.currentTime, ack.timestamp)
      [] e.action = "pause" -> PauseUpdate(e.data.currentTime)
      [] e.action = "seek" -> SeekUpdate(e.data.currentTime, ack.timestamp)
      [] e.action = "next" /\ ack.action = "next" ->
           TrackUpdate(ack.currentTrack.songId, 0, e.user, ack.timestamp)
      [] e.action = "next" /\ ack.action = "stop" -> StopUpdate

\* the fields of currentTrack as findByIdAndUpdate names them
TrackFields ==
    {"currentTrack.songId", "currentTrack.startedAt", "currentTrack.currentTime",
     "currentTrack.isPlaying", "currentTrack.playedBy"}

\* the stored value of a field of currentTrack
Stored(room, f) ==
    CASE f = "currentTrack.songId"      -> room.currentTrack.songId
      [] f = "currentTrack.startedAt"   -> room.currentTrack.startedAt
      [] f = "currentTrack.currentTime" -> room.currentTrack.currentTime
      [] f = "currentTrack.isPlaying"   -> room.currentTrack.isPlaying
      [] f = "currentTrack.playedBy"    -> room.currentTrack.playedBy

\* the positions in the order of application of the updates that wrote field f
Writers(f) == {j \in DOMAIN applied : f \in DOMAIN Written(applied[j])}

\* the last of a non-empty set of positions
Last(js) == CHOOSE j \in js : \A i \in js : i <= j

C24_PlayResultsInPlaying == [][PlayResultsInPlaying]_vars

\* the music-update and the music-control-success of a play with a songId carry that
\* song as currentTrack, with the fields the store holds after the event's update
PlayCarriesNewTrack ==
    \A t \in 1..MaxTasks :
       LET k == tasks[t]
           n == Len(emitted)
       IN
       (Steps(t, "emit") /\ k.action = "play" /\ k.data.songId # Null) =>
          /\ Len(emitted') = n + 2
          /\ \A i \in {n + 1, n + 2} :
                /\ emitted'[i].data.currentTrack.songId = k.data.songId
                /\ emitted'[i].data.currentTrack = rooms[k.roomId].currentTrack

\* C26: after an accepted play with a songId the currentTrack carried by the
\* music-update and by the music-control-success refers to that song and equals the
\* currentTrack the event persisted
C26_PlayCarriesNewTrack == [][PlayCarriesNewTrack]_vars

\* the song the applied update of event id set as currentTrack.songId, Null if none
TrackSetBy(id) ==
    LET e == arrivals[id] IN
    IF e.action = "play" THEN e.data.songId
    ELSE IF e.action = "next"
            /\ \E a \in Range(emitted) : a.ev = "music-control-success" /\ a.id = id
         THEN IF SuccessOf(id).data.action = "next"
              THEN SuccessOf(id).data.currentTrack.songId
              ELSE Null
    ELSE Null

\* the events whose update set song as the current track
TrackChanges(song) == {j \in DOMAIN applied : TrackSetBy(applied[j]) = song}

\* C27: in a room that started with s1 and s2 queued, once the handlers have returned,
\* also after a write of a handler was rejected by the store, a song missing from the
\* stored queue was set as currentTrack.songId by the applied update of an event, and
\* the play counter of a song is not above the number of events that set it
C27_DroppedSongIsCurrent ==
    AllIdle =>
       \A song \in Songs :
          /\ song \notin QueueIds(rooms["r1"].queue) => TrackChanges(song) # {}
          /\ songs[song] <= Cardinality(TrackChanges(song))

\* C29: after any sequence of queue additions, removals and accepted reorders, a
\* reorder naming one queued song twice included, the order values of the stored queue
\* are pairwise distinct and the queue is sorted by order
C29_DistinctSortedOrders ==
    \A r \in RoomIds :
       LET queue == rooms[r].queue IN
       /\ \A i, j \in DOMAIN queue : i # j => queue[i].order # queue[j].order
       /\ \A i, j \in DOMAIN queue : i < j => queue[i].order <= queue[j].order

\* C30: once the handlers have returned a member entry has isOnline true only in the
\* room its identity is bound to in the registry; after the accepted join-room for r2
\* of a session bound to r1 the identity is bound to r2 only, and the others in r1
\* were sent a user-left
C30_OnlineOnlyWhereBound ==
    AllIdle =>
       /\ \A r \in DOMAIN rooms : \A i \in DOMAIN rooms[r].members :
             rooms[r].members[i].isOnline =>
                activeConnections[rooms[r].members[i].userId].currentRoom = r
       /\ (/\ Len(arrivals) = 1
           /\ arrivals[1].action = "join-room" /\ arrivals[1].roomId = "r2"
           /\ \E e \in Range(emitted) : e.ev = "room-joined" /\ e.id = 1) =>
             /\ activeConnections[arrivals[1].user].currentRoom = "r2"
             /\ socketRooms[arrivals[1].user] = {"r2"}
             /\ \E e \in Range(emitted) :
                   /\ e.ev = "user-left" /\ e.from = arrivals[1].user
                   /\ e.to = Joined(arrivals[1].user, "r1")

\* C28: every connected session whose own disconnect has not been handled has a
\* registry entry for its identity, and the handling of the disconnect of an earlier
\* session of the identity leaves the session that joined a room bound to it with its
\* member entry online
C28_SessionKeepsEntry ==
    \A user \in sockets :
       /\ activeConnections[user].connected
       /\ AllIdle =>
             \A r \in socketRooms[user] :
                /\ activeConnections[user].currentRoom = r
                /\ \E i \in DOMAIN rooms[r].members :
                      rooms[r].members[i].userId = user /\ rooms[r].members[i].isOnline
====
